---- MODULE Spec2Model ----
(***************************************************************************)
(* Model of the Player relay: the retry-with-backoff executor, the stream  *)
(* aggregator (getEpisodeStreams / GET /api/stream) and the multi-server   *)
(* aggregator (getEpisodeMultiServer, getMovieMultiServer and the          *)
(* /api/stream/:type/:tvId[/ep/:epid] routes).                             *)
(*                                                                         *)
(* JavaScript values are encoded so that every variable keeps one shape:   *)
(*   undefined -> "undefined", null -> "null", strings -> strings or       *)
(*   sequences of characters, optional lists -> [present, list].           *)
(* Every await is a suspension point: an action runs from one suspension   *)
(* point to the next.                                                      *)
(***************************************************************************)
EXTENDS Integers, Sequences, FiniteSets, TLC

VARIABLES
    op,              \* the operation under way: "retry", "streams", "multi", "captions"
    impl,            \* "method" (PlayerConnect) or "route" (express handler)
    req,             \* the arguments / request parameters
    pc,              \* control position of the operation
    maxRetries,      \* retryWithBackoff: parameter
    baseDelay,       \* retryWithBackoff: parameter
    attempt,         \* retryWithBackoff: loop counter
    lastError,       \* retryWithBackoff: local
    delay,           \* retryWithBackoff: the delay handed to setTimeout
    category,        \* the category of the fetch under way
    serverIdx,       \* multi-server loop: index into serverList
    normalizedId,    \* the id handed to the scraper
    serverParam,     \* the server handed to the scraper
    transformedData, \* aggregation state of getEpisodeStreams
    serverObj,       \* aggregation state of the multi-server loop body
    servers,         \* aggregation state of the multi-server loop
    res,             \* what the operation returned / responded
    calls,           \* history: the calls made to fn / the scraper, in order
    outcomes,        \* history: how each of those calls settled, in order
    delays           \* history: the delays waited, in order

vars == <<op, impl, req, pc, maxRetries, baseDelay, attempt, lastError, delay,
          category, serverIdx, normalizedId, serverParam, transformedData,
          serverObj, servers, res, calls, outcomes, delays>>

retryVars == <<maxRetries, baseDelay, attempt, lastError, delay>>
aggVars == <<category, serverIdx, normalizedId, serverParam, transformedData,
             serverObj, servers>>

Undefined == "undefined"
Null == "null"
NoRes == [kind |-> "none"]

(***************************************************************************)
(* Bounds of the model.                                                    *)
(***************************************************************************)
MaxRetriesBound == 4   \* retryWithBackoff is explored for maxRetries in 0..MaxRetriesBound
MaxIdLen == 2          \* anime ids are strings of at most MaxIdLen characters
MaxTracks == 2         \* provider track lists of at most MaxTracks entries

(***************************************************************************)
(* retryWithBackoff                                                        *)
(***************************************************************************)
RECURSIVE Pow2(_)
Pow2(n) == IF n = 0 THEN 1 ELSE 2 * Pow2(n - 1)

RECURSIVE SumSeq(_)
SumSeq(s) == IF s = <<>> THEN 0 ELSE Head(s) + SumSeq(Tail(s))

\* for (let attempt = 0; attempt < maxRetries; attempt++)
LoopEnters(a, m) == a < m

\* if (attempt < maxRetries - 1)
ShouldDelay_Always(a, m) == a < m
ShouldDelay(a, m) == a < m - 1

\* const delay = baseDelay * Math.pow(2, attempt)
BackoffDelay_Linear(b, a) == b * (a + 1)
BackoffDelay(b, a) == b * Pow2(a)

\* How a call of fn settles: it resolves with a value or rejects with an error.
Resolved(v) == [kind |-> "resolved", value |-> v]
Rejected(e) == [kind |-> "rejected", error |-> e]

\* catch (error) { lastError = error; if (attempt < maxRetries - 1) {...delay...} }
\* then attempt++ and the loop test; "sleep" awaits the timer, "throw" is
\* `throw lastError` after the loop.
AfterReject_First(e) ==
    /\ lastError' = (IF lastError = Undefined THEN e ELSE lastError)
    /\ maxRetries' = maxRetries /\ baseDelay' = baseDelay
    /\ IF ShouldDelay(attempt, maxRetries)
       THEN /\ delay' = BackoffDelay(baseDelay, attempt)
            /\ delays' = Append(delays, BackoffDelay(baseDelay, attempt))
            /\ attempt' = attempt
       ELSE /\ delay' = 0
            /\ delays' = delays
            /\ attempt' = attempt + 1
AfterReject(e) ==
    /\ lastError' = e
    /\ maxRetries' = maxRetries /\ baseDelay' = baseDelay
    /\ IF ShouldDelay(attempt, maxRetries)
       THEN /\ delay' = BackoffDelay(baseDelay, attempt)
            /\ delays' = Append(delays, BackoffDelay(baseDelay, attempt))
            /\ attempt' = attempt
       ELSE /\ delay' = 0
            /\ delays' = delays
            /\ attempt' = attempt + 1

\* Entering retryWithBackoff(fn, m, b): the locals before the first loop test.
EnterRetry(m, b) ==
    /\ maxRetries' = m /\ baseDelay' = b
    /\ attempt' = 0 /\ lastError' = Undefined /\ delay' = 0

-----------------------------------------------------------------------------
(***************************************************************************)
(* retryWithBackoff on its own, around an arbitrary operation fn.          *)
(***************************************************************************)
FnValues == {"v1", "v2"}
FnErrors == {"e1", "e2"}
FnOutcomes == {Resolved(v) : v \in FnValues} \cup {Rejected(e) : e \in FnErrors}
BaseDelays == {500, 1000}

InitRetry ==
    /\ op = "retry" /\ impl = "function"
    /\ req \in [maxRetries : 0..MaxRetriesBound, baseDelay : BaseDelays]
    /\ pc = "start"
    /\ maxRetries = 0 /\ baseDelay = 0 /\ attempt = 0
    /\ lastError = Undefined /\ delay = 0
    /\ category = "none" /\ serverIdx = 0
    /\ normalizedId = <<>> /\ serverParam = Undefined
    /\ transformedData = NoRes /\ serverObj = NoRes /\ servers = <<>>
    /\ res = NoRes
    /\ calls = <<>> /\ outcomes = <<>> /\ delays = <<>>

\* The caller invokes retryWithBackoff: the loop is entered and fn is called
\* (await fn()), or, with maxRetries = 0, the loop is skipped and the
\* undefined lastError is thrown.
RetryStart ==
    /\ op = "retry" /\ pc = "start"
    /\ EnterRetry(req.maxRetries, req.baseDelay)
    /\ IF LoopEnters(0, req.maxRetries)
       THEN /\ pc' = "pending"
            /\ calls' = Append(calls, "fn")
            /\ res' = res
       ELSE /\ pc' = "done"
            /\ calls' = calls
            /\ res' = [kind |-> "thrown", value |-> Undefined]
    /\ UNCHANGED <<op, impl, req, aggVars, outcomes, delays>>

\* fn settles. return await fn() ends the call on success; a rejection is
\* caught, and either a timer is started or the loop ends and lastError is
\* thrown.
RetrySettle_NoReturn ==
    /\ op = "retry" /\ pc = "pending"
    /\ \E o \in FnOutcomes :
        /\ outcomes' = Append(outcomes, o)
        /\ IF o.kind = "resolved" /\ ~ LoopEnters(attempt + 1, maxRetries)
           THEN /\ pc' = "done"
                /\ res' = [kind |-> "returned", value |-> o.value]
                /\ UNCHANGED <<retryVars, delays>>
           ELSE /\ AfterReject(IF o.kind = "resolved" THEN lastError ELSE o.error)
                /\ IF ShouldDelay(attempt, maxRetries)
                   THEN pc' = "sleep" /\ res' = res
                   ELSE /\ pc' = "done"
                        /\ res' = [kind |-> "thrown", value |-> lastError']
    /\ UNCHANGED <<op, impl, req, aggVars, calls>>
RetrySettle ==
    /\ op = "retry" /\ pc = "pending"
    /\ \E o \in FnOutcomes :
        /\ outcomes' = Append(outcomes, o)
        /\ IF o.kind = "resolved"
           THEN /\ pc' = "done"
                /\ res' = [kind |-> "returned", value |-> o.value]
                /\ UNCHANGED <<retryVars, delays>>
           ELSE /\ AfterReject(o.error)
                /\ IF ShouldDelay(attempt, maxRetries)
                   THEN pc' = "sleep" /\ res' = res
                   ELSE pc' = "done" /\ res' = [kind |-> "thrown", value |-> lastError']
    /\ UNCHANGED <<op, impl, req, aggVars, calls>>

\* The setTimeout of the backoff fires: attempt++, the loop test passes
\* (ShouldDelay held), and fn is called again.
RetryTimer ==
    /\ op = "retry" /\ pc = "sleep"
    /\ attempt' = attempt + 1
    /\ pc' = "pending"
    /\ calls' = Append(calls, "fn")
    /\ UNCHANGED <<op, impl, req, maxRetries, baseDelay, lastError, delay,
                   aggVars, res, outcomes, delays>>

NextRetry == RetryStart \/ RetrySettle \/ RetryTimer

SpecRetry == InitRetry /\ [][NextRetry]_vars

-----------------------------------------------------------------------------
(***************************************************************************)
(* The scraper (HiAnime.Scraper.getEpisodeSources) as seen by the callers: *)
(* it resolves with null or with an object holding optional sources,       *)
(* subtitles, tracks, intro and outro, or it rejects with an error object. *)
(***************************************************************************)
Absent == [present |-> FALSE, list |-> <<>>]
Present(l) == [present |-> TRUE, list |-> l]
NoWindow == [present |-> FALSE, start |-> 0, end |-> 0]
Window(a, b) == [present |-> TRUE, start |-> a, end |-> b]

ScraperNull ==
    [nul |-> TRUE, sources |-> Absent, subtitles |-> Absent, tracks |-> Absent,
     intro |-> NoWindow, outro |-> NoWindow]
ScraperData(srcs, subs, trks, i, o) ==
    [nul |-> FALSE, sources |-> srcs, subtitles |-> subs, tracks |-> trks,
     intro |-> i, outro |-> o]

SampleTracks ==
    << [lang |-> "English", url |-> "s1", default |-> "true"],
       [lang |-> "thumbnails", url |-> "s2", default |-> Undefined] >>

\* A track list whose only track is not English and is reported as default.
OtherTracks ==
    << [lang |-> "Spanish", url |-> "s3", default |-> "true"] >>

\* The provider answers the callers are explored with.
ScraperResults ==
    { ScraperNull,
      ScraperData(Present(<<[url |-> "u3"]>>), Present(OtherTracks),
                  Present(OtherTracks), NoWindow, NoWindow),
      ScraperData(Absent, Absent, Absent, NoWindow, NoWindow),
      ScraperData(Present(<<>>), Present(SampleTracks), Present(SampleTracks),
                  NoWindow, NoWindow),
      ScraperData(Present(<<[url |-> "u1"]>>), Absent, Absent, NoWindow, NoWindow),
      ScraperData(Present(<<[url |-> "u2"], [url |-> "u1"]>>),
                  Present(SampleTracks), Present(SampleTracks),
                  Window(10, 90), Window(1300, 1390)),
      ScraperData(Present(<<[url |-> ""]>>), Absent, Absent, NoWindow, NoWindow) }
ScraperErrors == {"HiAnimeError"}
ScraperOutcomes ==
    {Resolved(r) : r \in ScraperResults} \cup {Rejected(e) : e \in ScraperErrors}

\* scraper.getEpisodeSources(id, server, category): the call as recorded.
ScraperCall(id, server, cat) == [id |-> id, server |-> server, category |-> cat]

(***************************************************************************)
(* JavaScript helpers.                                                     *)
(***************************************************************************)
\* JavaScript truthiness of a string-or-null value.
Truthy(v) == v \notin {Null, Undefined, ""}

\* String.prototype.replace('::', '?') on a string given as its characters:
\* the first occurrence only.
RECURSIVE ReplaceFirst_All(_)
ReplaceFirst_All(s) ==
    IF Len(s) < 2 THEN s
    ELSE IF s[1] = ":" /\ s[2] = ":"
         THEN <<"?">> \o ReplaceFirst_All(SubSeq(s, 3, Len(s)))
         ELSE <<s[1]>> \o ReplaceFirst_All(Tail(s))
RECURSIVE ReplaceFirst(_)
ReplaceFirst(s) ==
    IF Len(s) < 2 THEN s
    ELSE IF s[1] = ":" /\ s[2] = ":"
         THEN <<"?">> \o SubSeq(s, 3, Len(s))
         ELSE <<s[1]>> \o ReplaceFirst(Tail(s))

\* String.prototype.toLowerCase on the server names explored.
ToLowerCase_Identity(s) == s
ToLowerCase(s) == CASE s = "HD-1" -> "hd-1" [] s = "Hd-3" -> "hd-3" [] OTHER -> s

(***************************************************************************)
(* Request parameters. A query parameter or argument is absent             *)
(* (undefined), a string, or (route only) an array: express yields an      *)
(* array for a repeated query parameter.                                   *)
(***************************************************************************)
AbsentParam == [kind |-> "absent", str |-> <<>>]
ArrayParam == [kind |-> "array", str |-> <<>>]
StringParam(s) == [kind |-> "string", str |-> s]
AbsentName == [kind |-> "absent", name |-> ""]
ArrayName == [kind |-> "array", name |-> ""]
StringName(n) == [kind |-> "string", name |-> n]

RECURSIVE SeqsUpTo(_, _)
SeqsUpTo(S, n) ==
    IF n = 0 THEN {<<>>}
    ELSE LET shorter == SeqsUpTo(S, n - 1)
         IN shorter \cup {Append(q, x) : q \in shorter, x \in S}

IdChars == {"a", ":"}
AnimeIds == SeqsUpTo(IdChars, MaxIdLen)
Separators == {<<":", ":">>, <<"?">>}
Episodes == {"1", "2"}
EpisodeId(X, sep, N) == X \o sep \o <<"e", "p", "=", N>>
ServerNames == {"", "hd-1", "HD-1"}

\* The requests explored: every id of the form X::ep=N or X?ep=N, plus the
\* empty id; for the route also an absent id and array-valued parameters.
StreamRequests ==
    [impl : {"method"},
     animeId : AnimeIds, sep : Separators, ep : Episodes, idKind : {"string"},
     server : {AbsentName} \cup {StringName(n) : n \in ServerNames}]
    \cup
    [impl : {"route"},
     animeId : AnimeIds, sep : Separators, ep : Episodes, idKind : {"string"},
     server : {AbsentName, ArrayName} \cup {StringName(n) : n \in ServerNames}]
    \cup
    [impl : {"method"},
     animeId : {<<>>}, sep : {<<"?">>}, ep : {"1"}, idKind : {"empty"},
     server : {AbsentName} \cup {StringName(n) : n \in ServerNames}]
    \cup
    [impl : {"route"},
     animeId : {<<>>}, sep : {<<"?">>}, ep : {"1"},
     idKind : {"empty", "absent", "array"},
     server : {AbsentName, ArrayName} \cup {StringName(n) : n \in ServerNames}]

\* req.query.id / the id argument of a request.
IdOf(r) ==
    CASE r.idKind = "string" -> StringParam(EpisodeId(r.animeId, r.sep, r.ep))
      [] r.idKind = "empty" -> StringParam(<<>>)
      [] r.idKind = "absent" -> AbsentParam
      [] OTHER -> ArrayParam

(***************************************************************************)
(* getEpisodeStreams / GET /api/stream                                     *)
(***************************************************************************)
ZeroWindow == [start |-> 0, end |-> 0]
EmptyObject == [empty |-> TRUE]

\* const transformedData = { sub: {...}, dub: {} }
InitialData(server) ==
    [sub |-> [type |-> "sub", link |-> [file |-> Null], tracks |-> <<>>,
              intro |-> ZeroWindow, outro |-> ZeroWindow, server |-> server],
     dub |-> EmptyObject]

\* (t) => ({ file: t.url, label: t.lang || 'Unknown', kind: 'captions',
\*           default: t.default || false })
MapTrack(t) ==
    [file |-> t.url,
     label |-> IF Truthy(t.lang) THEN t.lang ELSE "Unknown",
     kind |-> "captions",
     default |-> (t.default = "true")]
MapTracks(l) == [i \in 1..Len(l) |-> MapTrack(l[i])]

\* streamData && streamData.sources && streamData.sources.length > 0
HasSources(r) == ~ r.nul /\ r.sources.present /\ Len(r.sources.list) > 0

\* The sub block after the sub fetch resolved.
ApplySub_Last(data, r) ==
    IF HasSources(r)
    THEN [data EXCEPT !.sub.link.file = r.sources.list[Len(r.sources.list)].url,
                      !.sub.tracks = IF r.subtitles.present
                                     THEN MapTracks(r.subtitles.list) ELSE @]
    ELSE data
ApplySub(data, r) ==
    IF HasSources(r)
    THEN [data EXCEPT !.sub.link.file = r.sources.list[1].url,
                      !.sub.tracks = IF r.subtitles.present
                                     THEN MapTracks(r.subtitles.list) ELSE @]
    ELSE data

\* The dub block after the dub fetch resolved (or was caught to null).
ApplyDub_NoSourceTest(data, r, server) ==
    IF ~ r.nul
    THEN [data EXCEPT !.dub =
            [type |-> "dub",
             link |-> [file |-> IF HasSources(r) THEN r.sources.list[1].url
                                ELSE Null],
             tracks |-> IF r.subtitles.present
                        THEN MapTracks(r.subtitles.list) ELSE <<>>,
             intro |-> ZeroWindow, outro |-> ZeroWindow, server |-> server]]
    ELSE data
ApplyDub(data, r, server) ==
    IF HasSources(r)
    THEN [data EXCEPT !.dub =
            [type |-> "dub", link |-> [file |-> r.sources.list[1].url],
             tracks |-> IF r.subtitles.present
                        THEN MapTracks(r.subtitles.list) ELSE <<>>,
             intro |-> ZeroWindow, outro |-> ZeroWindow, server |-> server]]
    ELSE data

NoteLoaded == "Stream loaded"
NoteNotAvailable == "Stream not available - try another server"
NoteFatal == "No stream available"

\* transformedData.sub.link.file ? 'Stream loaded' : 'Stream not available - ...'
NoteFor_Constant(data) == NoteLoaded
NoteFor_NonNull(data) ==
    IF data.sub.link.file # Null THEN NoteLoaded ELSE NoteNotAvailable
NoteFor(data) ==
    IF Truthy(data.sub.link.file) THEN NoteLoaded ELSE NoteNotAvailable

\* res.json({ success: true, data: transformedData, note }) / return {...}
Response(data) ==
    [kind |-> "response", status |-> 200,
     body |-> [success |-> TRUE, data |-> data, note |-> NoteFor(data)]]

\* The outer catch: the fixed fallback body.
FatalResponse ==
    [kind |-> "response", status |-> 200,
     body |-> [success |-> TRUE, data |-> InitialData("hd-2"), note |-> NoteFatal]]

\* res.status(400).json({ error: 'Episode ID is required', success: false })
BadRequest ==
    [kind |-> "response", status |-> 400,
     body |-> [success |-> FALSE, error |-> "Episode ID is required"]]

\* (req.query.server || 'hd-2').toLowerCase() in the route; the default
\* parameter server = 'hd-2' and server.toLowerCase() in the method.
ServerParamOf(i, server) ==
    IF server.kind = "absent" THEN "hd-2"
    ELSE IF i = "route" /\ server.name = "" THEN "hd-2"
    ELSE ToLowerCase(server.name)

InitStreams ==
    /\ op = "streams"
    /\ req \in StreamRequests
    /\ impl = req.impl
    /\ pc = "start"
    /\ maxRetries = 0 /\ baseDelay = 0 /\ attempt = 0
    /\ lastError = Undefined /\ delay = 0
    /\ category = "none" /\ serverIdx = 0
    /\ normalizedId = <<>> /\ serverParam = Undefined
    /\ transformedData = NoRes /\ serverObj = NoRes /\ servers = <<>>
    /\ res = NoRes
    /\ calls = <<>> /\ outcomes = <<>> /\ delays = <<>>

\* The handler up to its first await. Route: a non-string server throws in
\* toLowerCase and a non-string id throws in replace, both inside the outer
\* try; a falsy id is answered 400. Otherwise the id is normalized, the
\* aggregation state is built and the first sub call is made.
StreamsStart ==
    /\ op = "streams" /\ pc = "start"
    /\ LET id == IdOf(req)
           proceeds == /\ req.server.kind # "array"
                       /\ id.kind = "string"
                       /\ (impl = "route" => id.str # <<>>)
           server == ServerParamOf(impl, req.server)
       IN IF proceeds
          THEN /\ normalizedId' = ReplaceFirst(id.str)
               /\ serverParam' = server
               /\ transformedData' = InitialData(server)
               /\ EnterRetry(3, 1000)
               /\ category' = "sub"
               /\ calls' = Append(calls,
                                  ScraperCall(ReplaceFirst(id.str), server, "sub"))
               /\ pc' = "pending"
               /\ res' = res
          ELSE /\ res' = IF req.server.kind = "array" THEN FatalResponse
                         ELSE IF id.kind = "array" THEN FatalResponse
                         ELSE BadRequest
               /\ pc' = "done"
               /\ UNCHANGED <<retryVars, category, normalizedId, serverParam,
                              transformedData, calls>>
    /\ UNCHANGED <<op, impl, req, serverIdx, serverObj, servers, outcomes, delays>>

\* The sub call settles. Resolved: the sub block runs, then the dub fetch
\* starts. Rejected: retryWithBackoff sleeps or, after the last attempt,
\* throws into the inner catch, after which the response is sent.
StreamsSubSettle_RetryEmpty ==
    /\ op = "streams" /\ pc = "pending" /\ category = "sub"
    /\ \E o \in ScraperOutcomes :
        /\ outcomes' = Append(outcomes, o)
        /\ IF o.kind = "resolved" /\ HasSources(o.value)
           THEN /\ transformedData' = ApplySub(transformedData, o.value)
                /\ EnterRetry(2, 500)
                /\ category' = "dub"
                /\ calls' = Append(calls, ScraperCall(normalizedId, serverParam, "dub"))
                /\ pc' = "pending"
                /\ UNCHANGED <<res, delays>>
           ELSE /\ AfterReject(IF o.kind = "rejected" THEN o.error ELSE "empty")
                /\ IF ShouldDelay(attempt, maxRetries)
                   THEN pc' = "sleep" /\ res' = res
                   ELSE pc' = "done" /\ res' = Response(transformedData)
                /\ UNCHANGED <<transformedData, category, calls>>
    /\ UNCHANGED <<op, impl, req, serverIdx, normalizedId, serverParam,
                   serverObj, servers>>
StreamsSubSettle ==
    /\ op = "streams" /\ pc = "pending" /\ category = "sub"
    /\ \E o \in ScraperOutcomes :
        /\ outcomes' = Append(outcomes, o)
        /\ IF o.kind = "resolved"
           THEN /\ transformedData' = ApplySub(transformedData, o.value)
                /\ EnterRetry(2, 500)
                /\ category' = "dub"
                /\ calls' = Append(calls, ScraperCall(normalizedId, serverParam, "dub"))
                /\ pc' = "pending"
                /\ UNCHANGED <<res, delays>>
           ELSE /\ AfterReject(o.error)
                /\ IF ShouldDelay(attempt, maxRetries)
                   THEN pc' = "sleep" /\ res' = res
                   ELSE pc' = "done" /\ res' = Response(transformedData)
                /\ UNCHANGED <<transformedData, category, calls>>
    /\ UNCHANGED <<op, impl, req, serverIdx, normalizedId, serverParam,
                   serverObj, servers>>

\* The dub call settles. Resolved: the dub block runs and the response is
\* sent. Rejected: retryWithBackoff sleeps or throws; .catch(() => null)
\* turns the throw into dubData = null, and the response is sent.
StreamsDubSettle ==
    /\ op = "streams" /\ pc = "pending" /\ category = "dub"
    /\ \E o \in ScraperOutcomes :
        /\ outcomes' = Append(outcomes, o)
        /\ IF o.kind = "resolved"
           THEN /\ transformedData' = ApplyDub(transformedData, o.value, serverParam)
                /\ pc' = "done"
                /\ res' = Response(ApplyDub(transformedData, o.value, serverParam))
                /\ UNCHANGED <<retryVars, delays>>
           ELSE /\ AfterReject(o.error)
                /\ IF ShouldDelay(attempt, maxRetries)
                   THEN pc' = "sleep" /\ res' = res /\ transformedData' = transformedData
                   ELSE /\ transformedData' = ApplyDub(transformedData, ScraperNull,
                                                       serverParam)
                        /\ pc' = "done"
                        /\ res' = Response(ApplyDub(transformedData, ScraperNull,
                                                    serverParam))
    /\ UNCHANGED <<op, impl, req, category, serverIdx, normalizedId, serverParam,
                   serverObj, servers, calls>>

\* The backoff timer fires: attempt++ and the scraper is called again with
\* the same arguments.
StreamsTimer ==
    /\ op = "streams" /\ pc = "sleep"
    /\ attempt' = attempt + 1
    /\ calls' = Append(calls, ScraperCall(normalizedId, serverParam, category))
    /\ pc' = "pending"
    /\ UNCHANGED <<op, impl, req, maxRetries, baseDelay, lastError, delay,
                   aggVars, res, outcomes, delays>>

NextStreams == StreamsStart \/ StreamsSubSettle \/ StreamsDubSettle \/ StreamsTimer

SpecStreams == InitStreams /\ [][NextStreams]_vars

-----------------------------------------------------------------------------
(***************************************************************************)
(* getEpisodeMultiServer, getMovieMultiServer and the routes               *)
(* /api/stream/:type/:tvId/ep/:epid and /api/stream/:type/:tvId.           *)
(* impl = "method": PlayerConnect; "route": the handlers that loop over    *)
(* serverList; "static": the handlers of src/index.ts, which answer with a *)
(* fixed list.                                                             *)
(***************************************************************************)
\* const serverList = ['hd-1', 'hd-2', 'hd-3']
serverList_Swapped == <<"hd-2", "hd-1", "hd-3">>
serverList == <<"hd-1", "hd-2", "hd-3">>

\* serverName.charAt(0).toUpperCase() + serverName.slice(1)
Capitalize(n) ==
    CASE n = "hd-1" -> "Hd-1" [] n = "hd-2" -> "Hd-2" [] n = "hd-3" -> "Hd-3"
      [] OTHER -> n

\* A captions object as a function from label to url; {} is the empty one.
NoCaptions == <<>>

\* if (t.lang && t.lang !== 'thumbnails' && t.url) captionsObj[t.lang] = t.url
CaptionKept_NoThumbTest(t) == Truthy(t.lang) /\ Truthy(t.url)
CaptionKept(t) == Truthy(t.lang) /\ t.lang # "thumbnails" /\ Truthy(t.url)

\* tracks.forEach(...) into a fresh captionsObj: a later track with the same
\* label overwrites an earlier one.
RECURSIVE CaptionsInto_FirstWins(_, _)
CaptionsInto_FirstWins(acc, l) ==
    IF l = <<>> THEN acc
    ELSE CaptionsInto_FirstWins(IF CaptionKept(Head(l))
                                THEN acc @@ (Head(l).lang :> Head(l).url)
                                ELSE acc,
                                Tail(l))
RECURSIVE CaptionsInto(_, _)
CaptionsInto(acc, l) ==
    IF l = <<>> THEN acc
    ELSE CaptionsInto(IF CaptionKept(Head(l))
                      THEN (Head(l).lang :> Head(l).url) @@ acc
                      ELSE acc,
                      Tail(l))
BuildCaptions(l) == CaptionsInto(NoCaptions, l)

\* sources: { sub: { type, link: null, captions: {} }, dub: {...} }
NewServerObj(n) ==
    [name |-> Capitalize(n), id |-> n,
     sources |-> [sub |-> [type |-> "sub", link |-> Null, captions |-> NoCaptions],
                  dub |-> [type |-> "dub", link |-> Null, captions |-> NoCaptions]]]

\* if (data?.sources?.[0]?.url)
HasFirstUrl(r) ==
    /\ ~ r.nul /\ r.sources.present /\ Len(r.sources.list) > 0
    /\ Truthy(r.sources.list[1].url)

\* The block after one fetch of the loop body: the entry of category cat of
\* serverObj is filled from the answer r (null after .catch(() => null)).
FillEntry(obj, cat, r) ==
    IF HasFirstUrl(r)
    THEN [obj EXCEPT !.sources[cat].link = r.sources.list[1].url,
                     !.sources[cat].captions =
                        IF r.tracks.present /\ Len(r.tracks.list) > 0
                        THEN BuildCaptions(r.tracks.list) ELSE @]
    ELSE obj

\* The fixed list of the src/index.ts handlers: three entries whose links
\* and captions are built from the path parameters.
StaticEntry(n, host, langs, path) ==
    [name |-> "Server " \o n, id |-> "server-" \o n,
     sources |->
        [sub |-> [type |-> "sub", link |-> <<host>> \o path \o <<"sub">>,
                  captions |-> [i \in 1..Len(langs) |->
                                   [lang |-> langs[i],
                                    url |-> <<host>> \o path \o <<"sub", langs[i]>>]]],
         dub |-> [type |-> "dub", link |-> <<host>> \o path \o <<"dub">>,
                  captions |-> <<[lang |-> "English",
                                  url |-> <<host>> \o path \o <<"dub", "English">>]>>]]]
StaticServers(path) ==
    << StaticEntry("1", "stream.example.com", <<"English", "Spanish">>, path),
       StaticEntry("2", "cdn2.example.com", <<"English", "German">>, path),
       StaticEntry("3", "mirror.example.com", <<"English", "French", "Italian">>, path) >>

\* The provider answers the multi-server loop is explored with (its six
\* fetches multiply them); every answer shape is applied by SpecCaptions.
MultiResults ==
    { ScraperNull,
      ScraperData(Present(<<[url |-> "u2"], [url |-> "u1"]>>),
                  Present(SampleTracks), Present(SampleTracks),
                  Window(10, 90), Window(1300, 1390)) }
MultiOutcomes ==
    {Resolved(r) : r \in MultiResults} \cup {Rejected(e) : e \in ScraperErrors}

TvIds == {<<"a">>}
EpIds == {"1", "2"}
MultiRequests ==
    [impl : {"method", "route", "static"}, kind : {"episode"},
     type : {"tv"}, tvId : TvIds, epid : EpIds]
    \cup
    [impl : {"method", "route", "static"}, kind : {"movie"},
     type : {"movie"}, tvId : TvIds, epid : {Undefined}]

\* const id = `${tvId}?ep=${epid}` (episode); the movie variants pass tvId.
MultiId(r) ==
    IF r.kind = "episode" THEN r.tvId \o <<"?", "e", "p", "=", r.epid>> ELSE r.tvId

\* { success: true, contentType, contentId, [episode,] servers }
MultiResponse(r, list) ==
    [kind |-> "response", status |-> 200,
     body |-> [success |-> TRUE, contentType |-> r.type, contentId |-> r.tvId,
               episode |-> r.epid, servers |-> list]]

InitMulti ==
    /\ op = "multi"
    /\ req \in MultiRequests
    /\ impl = req.impl
    /\ pc = "start"
    /\ maxRetries = 0 /\ baseDelay = 0 /\ attempt = 0
    /\ lastError = Undefined /\ delay = 0
    /\ category = "none" /\ serverIdx = 0
    /\ normalizedId = <<>> /\ serverParam = Undefined
    /\ transformedData = NoRes /\ serverObj = NoRes /\ servers = <<>>
    /\ res = NoRes
    /\ calls = <<>> /\ outcomes = <<>> /\ delays = <<>>

\* The handler up to its first await: the static handlers answer at once;
\* the others build the id, enter the loop with the first server and make
\* the first sub call.
MultiStart ==
    /\ op = "multi" /\ pc = "start"
    /\ IF impl = "static"
       THEN /\ res' = MultiResponse(req,
                        StaticServers(<<req.type, req.tvId>>
                            \o (IF req.kind = "episode" THEN <<req.epid>> ELSE <<>>)))
            /\ pc' = "done"
            /\ UNCHANGED <<retryVars, aggVars, calls>>
       ELSE /\ normalizedId' = MultiId(req)
            /\ serverIdx' = 1
            /\ serverParam' = serverList[1]
            /\ serverObj' = NewServerObj(serverList[1])
            /\ servers' = <<>>
            /\ EnterRetry(2, 500)
            /\ category' = "sub"
            /\ calls' = Append(calls, ScraperCall(MultiId(req), serverList[1], "sub"))
            /\ pc' = "pending"
            /\ UNCHANGED <<res, transformedData>>
    /\ UNCHANGED <<op, impl, req, outcomes, delays>>

\* The loop body after the sub fetch gave r: fill the sub entry and start
\* the dub fetch of the same server.
AfterSubFetch_PushEarly(r) ==
    /\ serverObj' = FillEntry(serverObj, "sub", r)
    /\ servers' = Append(servers, FillEntry(serverObj, "sub", r))
    /\ EnterRetry(2, 500)
    /\ category' = "dub"
    /\ calls' = Append(calls, ScraperCall(normalizedId, serverParam, "dub"))
    /\ pc' = "pending"
    /\ UNCHANGED <<res, serverIdx, serverParam>>
AfterSubFetch(r) ==
    /\ serverObj' = FillEntry(serverObj, "sub", r)
    /\ EnterRetry(2, 500)
    /\ category' = "dub"
    /\ calls' = Append(calls, ScraperCall(normalizedId, serverParam, "dub"))
    /\ pc' = "pending"
    /\ UNCHANGED <<res, servers, serverIdx, serverParam>>

\* The loop body after the dub fetch gave r: fill the dub entry, push the
\* server object, then either move on to the next server and make its sub
\* call or leave the loop and answer.
AfterDubFetch(r) ==
    LET obj == FillEntry(serverObj, "dub", r)
        list == Append(servers, obj)
    IN /\ servers' = list
       /\ IF serverIdx < Len(serverList)
          THEN /\ serverIdx' = serverIdx + 1
               /\ serverParam' = serverList[serverIdx + 1]
               /\ serverObj' = NewServerObj(serverList[serverIdx + 1])
               /\ EnterRetry(2, 500)
               /\ category' = "sub"
               /\ calls' = Append(calls, ScraperCall(normalizedId,
                                                     serverList[serverIdx + 1], "sub"))
               /\ pc' = "pending"
               /\ res' = res
          ELSE /\ serverObj' = obj
               /\ pc' = "done"
               /\ res' = MultiResponse(req, list)
               /\ UNCHANGED <<retryVars, category, calls, serverIdx, serverParam>>

\* res.status(500).json({ success: false, error: 'Failed to fetch stream' })
MultiFailure ==
    [kind |-> "response", status |-> 500,
     body |-> [success |-> FALSE, error |-> "Failed to fetch stream"]]

MultiSettle_NoCatch ==
    /\ op = "multi" /\ pc = "pending"
    /\ \E o \in MultiOutcomes :
        /\ outcomes' = Append(outcomes, o)
        /\ IF o.kind = "resolved"
           THEN /\ IF category = "sub"
                   THEN AfterSubFetch(o.value) ELSE AfterDubFetch(o.value)
                /\ delays' = delays
           ELSE /\ AfterReject(o.error)
                /\ IF ShouldDelay(attempt, maxRetries)
                   THEN pc' = "sleep" /\ res' = res
                   ELSE pc' = "done" /\ res' = MultiFailure
                /\ UNCHANGED <<servers, serverObj, serverIdx, serverParam,
                               category, calls>>
    /\ UNCHANGED <<op, impl, req, normalizedId, transformedData>>
\* A call of the loop settles. Resolved: the loop body goes on with the
\* answer. Rejected: retryWithBackoff sleeps or, after the last attempt,
\* throws, and .catch(() => null) makes the loop body go on with null.
MultiSettle ==
    /\ op = "multi" /\ pc = "pending"
    /\ \E o \in MultiOutcomes :
        /\ outcomes' = Append(outcomes, o)
        /\ IF o.kind = "resolved"
           THEN /\ IF category = "sub"
                   THEN AfterSubFetch(o.value) ELSE AfterDubFetch(o.value)
                /\ delays' = delays
           ELSE IF ShouldDelay(attempt, maxRetries)
                THEN /\ AfterReject(o.error)
                     /\ pc' = "sleep"
                     /\ UNCHANGED <<res, servers, serverObj, serverIdx,
                                    serverParam, category, calls>>
                ELSE /\ IF category = "sub"
                        THEN AfterSubFetch(ScraperNull) ELSE AfterDubFetch(ScraperNull)
                     /\ delays' = delays
    /\ UNCHANGED <<op, impl, req, normalizedId, transformedData>>

\* The backoff timer fires: attempt++ and the scraper is called again.
MultiTimer ==
    /\ op = "multi" /\ pc = "sleep"
    /\ attempt' = attempt + 1
    /\ calls' = Append(calls, ScraperCall(normalizedId, serverParam, category))
    /\ pc' = "pending"
    /\ UNCHANGED <<op, impl, req, maxRetries, baseDelay, lastError, delay,
                   aggVars, res, outcomes, delays>>

NextMulti == MultiStart \/ MultiSettle \/ MultiTimer

SpecMulti == InitMulti /\ [][NextMulti]_vars

-----------------------------------------------------------------------------
(***************************************************************************)
(* One fetch of the multi-server loop body on its own: the block that      *)
(* fills an entry of serverObj, applied to every provider answer with a    *)
(* track list of at most MaxTracks tracks.                                 *)
(***************************************************************************)
TrackLangs == {"English", "Spanish", "thumbnails", Undefined}
TrackUrls == {"c1", "c2", ""}
TrackLists ==
    SeqsUpTo([lang : TrackLangs, url : TrackUrls, default : {Undefined}], MaxTracks)
CaptionAnswers ==
    {ScraperNull}
    \cup {ScraperData(srcs, Absent, trks, NoWindow, NoWindow) :
            srcs \in {Absent, Present(<<>>), Present(<<[url |-> ""]>>),
                      Present(<<[url |-> "u1"], [url |-> "u2"]>>)},
            trks \in {Absent} \cup {Present(l) : l \in TrackLists}}

InitCaptions ==
    /\ op = "captions" /\ impl = "method"
    /\ req \in [category : {"sub", "dub"}, answer : CaptionAnswers]
    /\ pc = "start"
    /\ maxRetries = 0 /\ baseDelay = 0 /\ attempt = 0
    /\ lastError = Undefined /\ delay = 0
    /\ category = "none" /\ serverIdx = 0
    /\ normalizedId = <<>> /\ serverParam = Undefined
    /\ transformedData = NoRes /\ serverObj = NoRes /\ servers = <<>>
    /\ res = NoRes
    /\ calls = <<>> /\ outcomes = <<>> /\ delays = <<>>

\* The fetch of req.category gave req.answer: the entry is filled.
CaptionsApply ==
    /\ op = "captions" /\ pc = "start"
    /\ category' = req.category
    /\ serverObj' = FillEntry(NewServerObj("hd-1"), req.category, req.answer)
    /\ pc' = "done"
    /\ UNCHANGED <<op, impl, req, retryVars, serverIdx, normalizedId, serverParam,
                   transformedData, servers, res, calls, outcomes, delays>>

NextCaptions == CaptionsApply

SpecCaptions == InitCaptions /\ [][NextCaptions]_vars

-----------------------------------------------------------------------------
(***************************************************************************)
(* Text. A string of the playlist rewriter and the media proxy is the      *)
(* sequence of its pieces; a piece is a literal run of characters, chosen  *)
(* so that every pattern the code searches for ('\n', '#', 'CODECS=', '"', *)
(* ',', '/', 'http://', '/proxy?url=', '.m3u8', ...) is a whole number of  *)
(* pieces and never straddles a piece boundary.                            *)
(***************************************************************************)
Quote == "\""
NewLine == "\n"
WhiteSpace == {" ", "\t", "\r"}

\* String.prototype.startsWith / endsWith / includes
StartsWith(s, p) == Len(s) >= Len(p) /\ SubSeq(s, 1, Len(p)) = p
EndsWith(s, p) == Len(s) >= Len(p) /\ SubSeq(s, Len(s) - Len(p) + 1, Len(s)) = p
Includes(s, p) == \E i \in 1..(Len(s) - Len(p) + 1) : SubSeq(s, i, i + Len(p) - 1) = p

\* String.prototype.trim
RECURSIVE TrimStart(_)
TrimStart(s) ==
    IF s # <<>> /\ Head(s) \in WhiteSpace THEN TrimStart(Tail(s)) ELSE s
RECURSIVE TrimEnd(_)
TrimEnd(s) ==
    IF s # <<>> /\ s[Len(s)] \in WhiteSpace
    THEN TrimEnd(SubSeq(s, 1, Len(s) - 1)) ELSE s
Trim(s) == TrimEnd(TrimStart(s))

\* content.split('\n') and lines.join('\n')
RECURSIVE Split(_)
Split(s) ==
    IF \E i \in 1..Len(s) : s[i] = NewLine
    THEN LET i == CHOOSE k \in 1..Len(s) :
                    s[k] = NewLine /\ \A j \in 1..(k - 1) : s[j] # NewLine
         IN <<SubSeq(s, 1, i - 1)>> \o Split(SubSeq(s, i + 1, Len(s)))
    ELSE <<s>>
RECURSIVE Join(_)
Join(ls) ==
    IF ls = <<>> THEN <<>>
    ELSE IF Len(ls) = 1 THEN ls[1]
    ELSE ls[1] \o <<NewLine>> \o Join(Tail(ls))

\* The position of the first '"' of s at or after i, 0 when there is none:
\* where [^"]*" ends.
NextQuote(s, i) ==
    IF \E j \in i..Len(s) : s[j] = Quote
    THEN CHOOSE j \in i..Len(s) : s[j] = Quote /\ \A k \in i..(j - 1) : s[k] # Quote
    ELSE 0

\* line.replace(/,CODECS="[^"]*"/g, '')
RECURSIVE StripCommaCodecs(_)
StripCommaCodecs(s) ==
    IF s = <<>> THEN s
    ELSE IF StartsWith(s, <<",", "CODECS=", Quote>>) /\ NextQuote(s, 4) # 0
         THEN StripCommaCodecs(SubSeq(s, NextQuote(s, 4) + 1, Len(s)))
         ELSE <<Head(s)>> \o StripCommaCodecs(Tail(s))

\* .replace(/CODECS="[^"]*",?/g, '')
RECURSIVE StripCodecs(_)
StripCodecs(s) ==
    IF s = <<>> THEN s
    ELSE IF StartsWith(s, <<"CODECS=", Quote>>) /\ NextQuote(s, 3) # 0
         THEN LET j == NextQuote(s, 3)
                  k == IF j < Len(s) /\ s[j + 1] = "," THEN j + 1 ELSE j
              IN StripCodecs(SubSeq(s, k + 1, Len(s)))
         ELSE <<Head(s)>> \o StripCodecs(Tail(s))

\* encodeURIComponent, piece by piece: letters, digits and - _ . ! ~ * ' ( )
\* are kept, every other character becomes %XX.
EncodePiece(p) ==
    CASE p = "/" -> "%2F"
      [] p = ":" -> "%3A"
      [] p = "," -> "%2C"
      [] p = "#" -> "%23"
      [] p = " " -> "%20"
      [] p = "\t" -> "%09"
      [] p = "\r" -> "%0D"
      [] p = Quote -> "%22"
      [] p = "http:" -> "http%3A"
      [] p = "https:" -> "https%3A"
      [] p = "proxy?url=" -> "proxy%3Furl%3D"
      [] p = "CODECS=" -> "CODECS%3D"
      [] p = "BANDWIDTH=1" -> "BANDWIDTH%3D1"
      [] p = "?t=1" -> "%3Ft%3D1"
      [] p = "%2F" -> "%252F"
      [] p = "http%3A" -> "http%253A"
      [] OTHER -> p
EncodeURIComponent(s) == [i \in 1..Len(s) |-> EncodePiece(s[i])]

(***************************************************************************)
(* rewriteM3u8                                                             *)
(***************************************************************************)
ProxyPrefix == <<"/", "proxy?url=">>
Marker == <<"#", "EXT-X-STREAM-INF">>

\* if (isMaster && line.includes('CODECS=')) processedLine = line.replace(..).replace(..)
ProcessedLine(line, isMaster) ==
    IF isMaster /\ Includes(line, <<"CODECS=">>)
    THEN StripCodecs(StripCommaCodecs(line)) ELSE line

\* trimmedLine.startsWith('http://') || trimmedLine.startsWith('https://')
IsAbsolute(s) ==
    \/ StartsWith(s, <<"http:", "/", "/">>)
    \/ StartsWith(s, <<"https:", "/", "/">>)

\* let fullUrl = trimmedLine; if (!absolute) fullUrl = baseUrl + trimmedLine
FullUrl_NoBase(trimmedLine, baseUrl) == trimmedLine
FullUrl(trimmedLine, baseUrl) ==
    IF IsAbsolute(trimmedLine) THEN trimmedLine ELSE baseUrl \o trimmedLine

\* The callback of lines.map.
RewriteLine_KeepAbsolute(line, baseUrl, isMaster) ==
    LET processedLine == ProcessedLine(line, isMaster)
        trimmedLine == Trim(processedLine)
    IN IF trimmedLine # <<>> /\ ~ StartsWith(trimmedLine, <<"#">>)
       THEN IF StartsWith(trimmedLine, ProxyPrefix) \/ IsAbsolute(trimmedLine)
            THEN trimmedLine
            ELSE ProxyPrefix \o EncodeURIComponent(FullUrl(trimmedLine, baseUrl))
       ELSE processedLine
RewriteLine_NoProxiedTest(line, baseUrl, isMaster) ==
    LET processedLine == ProcessedLine(line, isMaster)
        trimmedLine == Trim(processedLine)
    IN IF trimmedLine # <<>> /\ ~ StartsWith(trimmedLine, <<"#">>)
       THEN ProxyPrefix \o EncodeURIComponent(FullUrl(trimmedLine, baseUrl))
       ELSE processedLine
RewriteLine(line, baseUrl, isMaster) ==
    LET processedLine == ProcessedLine(line, isMaster)
        trimmedLine == Trim(processedLine)
    IN IF trimmedLine # <<>> /\ ~ StartsWith(trimmedLine, <<"#">>)
       THEN IF StartsWith(trimmedLine, ProxyPrefix)
            THEN trimmedLine
            ELSE ProxyPrefix \o EncodeURIComponent(FullUrl(trimmedLine, baseUrl))
       ELSE processedLine

rewriteM3u8(content, baseUrl, isMaster) ==
    LET lines == Split(content)
    IN Join([i \in 1..Len(lines) |-> RewriteLine(lines[i], baseUrl, isMaster)])

(***************************************************************************)
(* The playlists explored. A line is described by its leading whitespace,  *)
(* its head (a tag with its colon, or a URI), its attribute list and its   *)
(* trailing whitespace; the text of the line is their concatenation, the   *)
(* attributes separated by commas. Attribute lists follow RFC 8216: the    *)
(* CODECS value is a quoted string, which may itself contain a comma.      *)
(***************************************************************************)
MaxLines == 2          \* playlists of at most MaxLines lines

CodecsAttr == <<"CODECS=", Quote, "avc1", ",", "mp4a", Quote>>
PlainAttr == <<"BANDWIDTH=1">>
AttrLists ==
    { <<>>, <<PlainAttr>>, <<CodecsAttr>>, <<CodecsAttr, PlainAttr>>,
      <<PlainAttr, CodecsAttr>>, <<PlainAttr, CodecsAttr, PlainAttr>>,
      <<CodecsAttr, CodecsAttr>> }

StreamInfTag == <<"#", "EXT-X-STREAM-INF", ":">>
MediaTag == <<"#", "EXT-X-MEDIA", ":">>
HeaderTag == <<"#", "EXTM3U">>
RelativeUri == <<"seg.ts">>
NestedUri == <<"200p", "/", "index", ".m3u8">>
HttpUri == <<"http:", "/", "/", "host", "/", "seg.ts">>
HttpsUri == <<"https:", "/", "/", "host", "/", "seg.ts">>
ProxiedUri == <<"/", "proxy?url=", "http%3A", "%2F", "%2F", "host", "%2F", "seg.ts">>

LineDesc(lead, head, attrs, trail) ==
    [lead |-> lead, head |-> head, attrs |-> attrs, trail |-> trail]

PlaylistLines ==
    {LineDesc(<<>>, StreamInfTag, a, <<>>) : a \in AttrLists}
    \cup {LineDesc(<<>>, MediaTag, a, <<>>) :
            a \in {<<CodecsAttr>>, <<PlainAttr, CodecsAttr>>, <<CodecsAttr, PlainAttr>>}}
    \cup {LineDesc(l, HeaderTag, <<>>, <<>>) : l \in {<<>>, <<" ">>}}
    \cup {LineDesc(<<>>, <<>>, <<>>, t) : t \in {<<>>, <<"\r">>}}
    \cup {LineDesc(l, h, <<>>, t) :
            l \in {<<>>, <<" ">>}, h \in {RelativeUri, ProxiedUri},
            t \in {<<>>, <<"\r">>}}
    \cup {LineDesc(<<>>, h, <<>>, <<>>) : h \in {NestedUri, HttpUri, HttpsUri}}

RECURSIVE JoinAttrs(_)
JoinAttrs(attrs) ==
    IF attrs = <<>> THEN <<>>
    ELSE IF Len(attrs) = 1 THEN attrs[1]
    ELSE attrs[1] \o <<",">> \o JoinAttrs(Tail(attrs))

\* The text of a line and of a playlist.
LineText(d) == d.lead \o d.head \o JoinAttrs(d.attrs) \o d.trail
Content(ds) == Join([i \in 1..Len(ds) |-> LineText(ds[i])])

Playlists == SeqsUpTo(PlaylistLines, MaxLines) \ {<<>>}
BaseUrls == { <<"http:", "/", "/", "host", "/", "path", "/">>, <<>> }

(***************************************************************************)
(* rewriteM3u8 on its own, for every playlist, baseUrl and isMaster.       *)
(***************************************************************************)
InitRewrite ==
    /\ op = "rewrite" /\ impl = "function"
    /\ req \in [lines : Playlists, baseUrl : BaseUrls, isMaster : BOOLEAN]
    /\ pc = "start"
    /\ maxRetries = 0 /\ baseDelay = 0 /\ attempt = 0
    /\ lastError = Undefined /\ delay = 0
    /\ category = "none" /\ serverIdx = 0
    /\ normalizedId = <<>> /\ serverParam = Undefined
    /\ transformedData = NoRes /\ serverObj = NoRes /\ servers = <<>>
    /\ res = NoRes
    /\ calls = <<>> /\ outcomes = <<>> /\ delays = <<>>

RewriteApply ==
    /\ op = "rewrite" /\ pc = "start"
    /\ res' = [kind |-> "returned",
               value |-> rewriteM3u8(Content(req.lines), req.baseUrl, req.isMaster)]
    /\ pc' = "done"
    /\ UNCHANGED <<op, impl, req, retryVars, aggVars, calls, outcomes, delays>>

NextRewrite == RewriteApply

SpecRewrite == InitRewrite /\ [][NextRewrite]_vars

-----------------------------------------------------------------------------
(***************************************************************************)
(* GET /proxy. res is the express response: its headers are set as the     *)
(* handler goes and it is sent once. calls holds the upstream fetches,     *)
(* outcomes how the awaited promises (fetch, then the body read) settled.  *)
(***************************************************************************)
NoHeader == [present |-> FALSE, value |-> <<>>]
Header(v) == [present |-> TRUE, value |-> v]

MpegUrlType == <<"application/vnd.apple.", "mpegurl">>
JsonType == <<"application/json">>

\* The target URLs explored.
MasterUrl == <<"http:", "/", "/", "host", "/", "path", "/", "master", ".m3u8">>
SegmentUrl == <<"http:", "/", "/", "host", "/", "path", "/", "seg.ts">>
SignedUrl == <<"http:", "/", "/", "host", "/", "path", "/", "master", ".m3u8", "?t=1">>
BareUrl == <<"http:", "/", "/", "host">>
Targets == {MasterUrl, SegmentUrl, SignedUrl, BareUrl}

\* req.query.url: absent, the empty string, a target, or (repeated key) an
\* array, which fetch turns into its elements joined by ','.
UrlParams ==
    {AbsentParam, ArrayParam, StringParam(<<>>)} \cup {StringParam(t) : t \in Targets}
FetchedUrl(u) ==
    IF u.kind = "array" THEN SegmentUrl \o <<",">> \o SegmentUrl ELSE u.str

\* The upstream content types explored: none, two that hold a playlist
\* marker, one that holds it in another case, one of a media segment.
ContentTypes ==
    { NoHeader, Header(MpegUrlType), Header(<<"application/", "m3u8">>),
      Header(<<"application/x-", "mpegURL">>), Header(<<"video/mp2t">>) }

\* The upstream bodies explored.
ProxyLines ==
    {LineDesc(<<>>, StreamInfTag, a, <<>>) :
        a \in {<<PlainAttr>>, <<CodecsAttr, PlainAttr>>,
               <<PlainAttr, CodecsAttr, PlainAttr>>}}
    \cup {LineDesc(<<>>, MediaTag, a, <<>>) :
            a \in {<<CodecsAttr>>, <<PlainAttr, CodecsAttr>>}}
    \cup {LineDesc(<<>>, <<>>, <<>>, <<"\r">>)}
    \cup {LineDesc(<<>>, RelativeUri, <<>>, t) : t \in {<<>>, <<"\r">>}}
    \cup {LineDesc(<<>>, h, <<>>, <<>>) : h \in {NestedUri, HttpUri, ProxiedUri}}
ProxyBodies == SeqsUpTo(ProxyLines, MaxLines) \ {<<>>}

\* The HTTP statuses the upstream answers with: fetch resolves for every
\* one of them.
UpstreamStatuses == {200, 404, 503}

\* What fetch resolves with: the status, the content type header and the
\* body.
UpstreamResponse(st, ct, ds) == [status |-> st, contentType |-> ct, lines |-> ds]
FetchOutcomes ==
    {Rejected("FetchError")}
    \cup {Resolved(UpstreamResponse(st, ct, ds)) :
            st \in UpstreamStatuses, ct \in ContentTypes, ds \in ProxyBodies}
BodyOutcomes == {Rejected("BodyError"), Resolved("body")}

\* if (!targetUrl)
MissingUrl(u) == u.kind = "absent" \/ (u.kind = "string" /\ u.str = <<>>)

\* response.headers.get('content-type') || ''
ContentTypeOf(r) == IF r.contentType.present THEN r.contentType.value ELSE <<>>

\* targetUrl.endsWith('.m3u8') || contentType.includes('mpegurl') ||
\* contentType.includes('m3u8')
IsPlaylist_UrlOnly(targetUrl, contentType) == EndsWith(targetUrl, <<".m3u8">>)
IsPlaylist(targetUrl, contentType) ==
    \/ EndsWith(targetUrl, <<".m3u8">>)
    \/ Includes(contentType, <<"mpegurl">>)
    \/ Includes(contentType, <<"m3u8">>)

\* targetUrl.substring(0, targetUrl.lastIndexOf('/') + 1)
LastIndexOf(s, p) ==
    IF \E i \in 1..Len(s) : s[i] = p
    THEN CHOOSE i \in 1..Len(s) : s[i] = p /\ \A j \in (i + 1)..Len(s) : s[j] # p
    ELSE 0
BaseUrlOf(targetUrl) == SubSeq(targetUrl, 1, LastIndexOf(targetUrl, "/"))

\* text.includes('#EXT-X-STREAM-INF')
IsMaster_FirstLine(text) == StartsWith(text, Marker)
IsMaster(text) == Includes(text, Marker)

\* The response before anything is set on it.
OpenResponse ==
    [kind |-> "open", status |-> 200, acao |-> FALSE, contentType |-> NoHeader,
     body |-> <<>>]
\* res.status(code).json({ error })
JsonError(r, code, msg) ==
    [r EXCEPT !.kind = "response", !.status = code,
              !.contentType = Header(JsonType), !.body = <<msg>>]
\* res.setHeader('Access-Control-Allow-Origin', '*')
SetAcao(r) == [r EXCEPT !.acao = TRUE]
\* res.send(body)
Send(r, body) == [r EXCEPT !.kind = "response", !.body = body]
\* catch (error) { res.status(500).json({ error: 'Failed to fetch resource' }) }
ProxyFailure(r) == JsonError(r, 500, "Failed to fetch resource")

InitProxy ==
    /\ op = "proxy" /\ impl = "route"
    /\ req \in [url : UrlParams]
    /\ pc = "start"
    /\ maxRetries = 0 /\ baseDelay = 0 /\ attempt = 0
    /\ lastError = Undefined /\ delay = 0
    /\ category = "none" /\ serverIdx = 0
    /\ normalizedId = <<>> /\ serverParam = Undefined
    /\ transformedData = NoRes /\ serverObj = NoRes /\ servers = <<>>
    /\ res = OpenResponse
    /\ calls = <<>> /\ outcomes = <<>> /\ delays = <<>>

\* The handler up to its first await: a missing or empty url is answered 400;
\* otherwise the upstream fetch is issued.
ProxyStart ==
    /\ op = "proxy" /\ pc = "start"
    /\ IF MissingUrl(req.url)
       THEN /\ res' = JsonError(res, 400, "URL parameter required")
            /\ pc' = "done"
            /\ calls' = calls
       ELSE /\ calls' = Append(calls, [url |-> FetchedUrl(req.url)])
            /\ pc' = "fetching"
            /\ res' = res
    /\ UNCHANGED <<op, impl, req, retryVars, aggVars, outcomes, delays>>

\* await fetch(...) settles. Rejected: the catch answers 500. Resolved: the
\* cross-origin header is set and the response is classified; an array
\* targetUrl has no endsWith, and the TypeError goes to the catch. The
\* playlist path awaits response.text(), the binary path forwards the content
\* type and awaits response.arrayBuffer().
ProxyFetchSettle_Retry ==
    /\ op = "proxy" /\ pc = "fetching"
    /\ \E o \in FetchOutcomes :
        /\ outcomes' = Append(outcomes, o)
        /\ IF o.kind = "rejected"
           THEN IF Len(calls) < 2
                THEN /\ calls' = Append(calls, [url |-> FetchedUrl(req.url)])
                     /\ res' = res /\ pc' = "fetching"
                ELSE /\ res' = ProxyFailure(res) /\ pc' = "done"
                     /\ calls' = calls
           ELSE /\ calls' = calls
                /\ IF req.url.kind = "array"
                   THEN res' = ProxyFailure(SetAcao(res)) /\ pc' = "done"
                   ELSE IF IsPlaylist(req.url.str, ContentTypeOf(o.value))
                   THEN res' = SetAcao(res) /\ pc' = "text"
                   ELSE /\ res' = [SetAcao(res) EXCEPT !.contentType =
                                     IF ContentTypeOf(o.value) # <<>>
                                     THEN Header(ContentTypeOf(o.value)) ELSE @]
                        /\ pc' = "arrayBuffer"
    /\ UNCHANGED <<op, impl, req, retryVars, aggVars, delays>>
ProxyFetchSettle ==
    /\ op = "proxy" /\ pc = "fetching"
    /\ \E o \in FetchOutcomes :
        /\ outcomes' = Append(outcomes, o)
        /\ IF o.kind = "rejected"
           THEN res' = ProxyFailure(res) /\ pc' = "done"
           ELSE IF req.url.kind = "array"
           THEN res' = ProxyFailure(SetAcao(res)) /\ pc' = "done"
           ELSE IF IsPlaylist(req.url.str, ContentTypeOf(o.value))
           THEN res' = SetAcao(res) /\ pc' = "text"
           ELSE /\ res' = [SetAcao(res) EXCEPT !.contentType =
                             IF ContentTypeOf(o.value) # <<>>
                             THEN Header(ContentTypeOf(o.value)) ELSE @]
                /\ pc' = "arrayBuffer"
    /\ UNCHANGED <<op, impl, req, retryVars, aggVars, calls, delays>>

\* The response fetch resolved with (the handler's local `response`).
UpstreamOf(os) == os[1].value

\* await response.text() / response.arrayBuffer() settles. Rejected: the
\* catch answers 500. Resolved: the playlist is rewritten and sent with the
\* playlist content type, or the bytes are sent as they are.
ProxyBodySettle ==
    /\ op = "proxy" /\ pc \in {"text", "arrayBuffer"}
    /\ \E o \in BodyOutcomes :
        /\ outcomes' = Append(outcomes, o)
        /\ pc' = "done"
        /\ IF o.kind = "rejected"
           THEN res' = ProxyFailure(res)
           ELSE IF pc = "text"
           THEN LET text == Content(UpstreamOf(outcomes).lines)
                IN res' = Send([res EXCEPT !.contentType = Header(MpegUrlType)],
                               rewriteM3u8(text, BaseUrlOf(req.url.str),
                                           IsMaster(text)))
           ELSE res' = Send(res, Content(UpstreamOf(outcomes).lines))
    /\ UNCHANGED <<op, impl, req, retryVars, aggVars, calls, delays>>

\* The upstream stops answering while the handler awaits it. The fetch is
\* given no signal and the handler sets no timer: nothing in the handler
\* makes the await settle.
ProxyUpstreamHangs ==
    /\ op = "proxy" /\ pc \in {"fetching", "text", "arrayBuffer"}
    /\ pc' = "hung"
    /\ UNCHANGED <<op, impl, req, retryVars, aggVars, res, calls, outcomes, delays>>

NextProxy == ProxyStart \/ ProxyFetchSettle \/ ProxyBodySettle \/ ProxyUpstreamHangs

SpecProxy == InitProxy /\ [][NextProxy]_vars

\* The same handler under the scheduling the event loop gives it: a request
\* received is handled, and an await does not stay undecided for ever: it
\* settles or the upstream has stopped answering.
SpecProxyLive ==
    /\ InitProxy /\ [][NextProxy]_vars
    /\ WF_vars(ProxyStart) /\ WF_vars(ProxyUpstreamHangs)

-----------------------------------------------------------------------------
(***************************************************************************)
(* Claims about retryWithBackoff (checked under SpecRetry).                *)
(***************************************************************************)
AllRejected(k) == \A j \in 1..k : outcomes[j].kind = "rejected"

\* C1: when fn fails on its first k-1 invocations and succeeds on the k-th
\* (1 <= k <= maxRetries), fn has been invoked exactly k times, the call has
\* returned the value of the k-th invocation, and fn is not invoked again.
C1_ReturnsFirstSuccess ==
    op = "retry" =>
        \A k \in 1..Len(outcomes) :
            (k <= req.maxRetries /\ AllRejected(k - 1)
                /\ outcomes[k].kind = "resolved")
            => /\ Len(calls) = k
               /\ Len(outcomes) = k
               /\ pc = "done"
               /\ res = [kind |-> "returned", value |-> outcomes[k].value]

\* C1 witness: a call that failed twice and succeeded on its third invocation.
C1_Witness ==
    /\ op = "retry" /\ pc = "done" /\ res.kind = "returned"
    /\ Len(calls) = 3 /\ req.maxRetries = 4
    /\ outcomes[1].kind = "rejected" /\ outcomes[2].kind = "rejected"

\* C2: with maxRetries = n >= 1 and an operation that fails on every
\* invocation, the operation is invoked exactly n times, the call then fails
\* with the error of the n-th invocation, and n - 1 delays were waited (none
\* after the last failure).
C2_ThrowsLastError ==
    (op = "retry" /\ pc # "start" /\ req.maxRetries >= 1
        /\ AllRejected(Len(outcomes)))
    => /\ Len(outcomes) <= req.maxRetries
       /\ Len(calls) <= req.maxRetries
       /\ IF Len(outcomes) = req.maxRetries
          THEN /\ pc = "done"
               /\ Len(calls) = req.maxRetries
               /\ res = [kind |-> "thrown",
                         value |-> outcomes[req.maxRetries].error]
               /\ Len(delays) = req.maxRetries - 1
          ELSE pc # "done" /\ res = NoRes

\* C2 witness: three failures with maxRetries = 3, the last error differing
\* from the earlier ones.
C2_Witness ==
    /\ op = "retry" /\ pc = "done" /\ req.maxRetries = 3
    /\ Len(outcomes) = 3 /\ AllRejected(3)
    /\ outcomes[1].error = "e1" /\ outcomes[2].error = "e1"
    /\ outcomes[3].error = "e2"
    /\ res.kind = "thrown"

\* C3: the i-th delay waited is baseDelay * 2^(i-1); attempt k+1 is invoked
\* only after the delay that follows the failure of attempt k; a call that
\* succeeds on attempt k has waited baseDelay * (2^(k-1) - 1) in total.
C3_DelaySchedule ==
    op = "retry" =>
        /\ \A i \in 1..Len(delays) : delays[i] = req.baseDelay * 2^(i - 1)
        /\ pc = "pending" => Len(delays) = Len(calls) - 1
        /\ pc = "sleep" => /\ Len(delays) = Len(calls)
                           /\ delay = req.baseDelay * 2^(Len(calls) - 1)
        /\ (pc = "done" /\ res.kind = "returned")
            => SumSeq(delays) = req.baseDelay * (2^(Len(calls) - 1) - 1)

\* C3 witness: success on the fourth attempt after delays b, 2b, 4b.
C3_Witness ==
    /\ op = "retry" /\ pc = "done" /\ res.kind = "returned"
    /\ Len(calls) = 4 /\ req.baseDelay = 500
    /\ delays = <<500, 1000, 2000>>

-----------------------------------------------------------------------------
(***************************************************************************)
(* Claims about getEpisodeStreams / GET /api/stream (under SpecStreams).   *)
(***************************************************************************)
\* The provider answer carries at least one source.
YieldsSource(o) ==
    /\ o.kind = "resolved"
    /\ ~ o.value.nul
    /\ o.value.sources.present
    /\ o.value.sources.list # <<>>

SettledCalls(cat) == {i \in 1..Len(outcomes) : calls[i].category = cat}
NoSubSource == \A i \in SettledCalls("sub") : ~ YieldsSource(outcomes[i])
StreamsDone == op = "streams" /\ pc = "done"

\* C4: for a string id that is present and a server that is a string or
\* absent, whatever the provider does (throws, returns null, returns no or
\* an empty source list), the finished call has not raised and has
\* success = true; when no sub fetch yielded a source, sub.link.file is null
\* and note is "Stream not available - try another server".
C4_NeverRaises ==
    (StreamsDone /\ req.idKind = "string" /\ req.server.kind # "array")
    => /\ res.kind = "response"
       /\ res.status = 200
       /\ res.body.success = TRUE
       /\ NoSubSource =>
            /\ res.body.data.sub.link.file = Null
            /\ res.body.note = "Stream not available - try another server"

\* C4 witness: the provider threw on all three sub attempts.
C4_Witness ==
    /\ StreamsDone /\ req.idKind = "string" /\ impl = "method"
    /\ Len(outcomes) = 3
    /\ \A i \in 1..3 : outcomes[i].kind = "rejected"
    /\ res.body.success = TRUE
    /\ res.body.note = "Stream not available - try another server"

\* C5 (as claimed): every finished execution that fetched at all has called
\* the provider with category 'dub' before responding.
C5_DubAlwaysAttempted ==
    (StreamsDone /\ req.idKind = "string" /\ Len(calls) > 0)
    => \E i \in 1..Len(calls) : calls[i].category = "dub"

\* C6 (as claimed): the note of every response to a request carrying an id
\* is "Stream loaded" when sub.link.file is non-null and "Stream not
\* available - try another server" when it is null.
C6_NoteFunctionOfFile ==
    (StreamsDone /\ req.idKind \in {"string", "array"})
    => res.body.note =
         (IF res.body.data.sub.link.file # Null
          THEN "Stream loaded"
          ELSE "Stream not available - try another server")

\* C6 (amended): note is "Stream loaded" exactly when sub.link.file is a
\* non-empty URL and otherwise "Stream not available - try another server",
\* except for the fallback sent when the id or the server parameter is not a
\* string: there sub.link.file is null and note is "No stream available".
C6_NoteValues ==
    (StreamsDone /\ req.idKind \in {"string", "array"})
    => IF req.idKind = "array" \/ req.server.kind = "array"
       THEN /\ res.body.note = "No stream available"
            /\ res.body.data.sub.link.file = Null
            /\ calls = <<>>
       ELSE res.body.note =
              (IF res.body.data.sub.link.file \notin {Null, ""}
               THEN "Stream loaded"
               ELSE "Stream not available - try another server")

\* C6 witness: a response with a source and the note "Stream loaded".
C6_Witness ==
    /\ StreamsDone /\ req.idKind = "string"
    /\ res.body.data.sub.link.file = "u2"
    /\ res.body.note = "Stream loaded"

\* The id X?ep=N as characters.
Canonical(X, N) == X \o <<"?", "e", "p", "=", N>>

\* s with its first "::" (if any) replaced by "?", stated by position.
FirstPairAt(s) ==
    {i \in 1..(Len(s) - 1) :
        /\ s[i] = ":" /\ s[i + 1] = ":"
        /\ \A j \in 1..(i - 1) : ~ (s[j] = ":" /\ s[j + 1] = ":")}
FirstReplaced(s) ==
    IF FirstPairAt(s) = {} THEN s
    ELSE LET i == CHOOSE k \in FirstPairAt(s) : TRUE
         IN SubSeq(s, 1, i - 1) \o <<"?">> \o SubSeq(s, i + 2, Len(s))

\* X holds no "::" and does not end in ":".
PlainAnimeId(X) ==
    /\ \A i \in 1..(Len(X) - 1) : ~ (X[i] = ":" /\ X[i + 1] = ":")
    /\ (X # <<>> => X[Len(X)] # ":")

\* The response recomputed from the server and the provider's answers alone.
ResolvedAt(cat) == {i \in SettledCalls(cat) : outcomes[i].kind = "resolved"}
AnswerOf(cat) ==
    IF ResolvedAt(cat) = {} THEN ScraperNull
    ELSE outcomes[CHOOSE i \in ResolvedAt(cat) : TRUE].value
ResponseFromAnswers ==
    IF ResolvedAt("sub") = {}
    THEN Response(InitialData(serverParam))
    ELSE Response(ApplyDub(ApplySub(InitialData(serverParam), AnswerOf("sub")),
                           AnswerOf("dub"), serverParam))

\* C7 (as claimed): for every anime id X and episode N, the requests
\* "X::ep=N" and "X?ep=N" both call the provider with the id "X?ep=N".
C7_SameCalls ==
    (op = "streams" /\ req.idKind = "string")
    => \A i \in 1..Len(calls) : calls[i].id = Canonical(req.animeId, req.ep)

\* C7 (amended): the id handed to the provider is the request id with its
\* first "::" replaced by "?" and nothing else changed; for an anime id X
\* that holds no "::" and does not end in ":", both "X::ep=N" and "X?ep=N"
\* make every provider call carry the id "X?ep=N" and the same server, and
\* the response of a request that fetched is determined by the server and
\* the provider's answers.
C7_Normalization ==
    (op = "streams" /\ req.idKind = "string")
    => /\ \A i \in 1..Len(calls) :
            /\ calls[i].id = FirstReplaced(EpisodeId(req.animeId, req.sep, req.ep))
            /\ calls[i].server = serverParam
            /\ PlainAnimeId(req.animeId)
                => calls[i].id = Canonical(req.animeId, req.ep)
       /\ (pc = "done" /\ calls # <<>>) => res = ResponseFromAnswers

\* C7 witness: the request "a::ep=1" has fetched with the id "a?ep=1".
C7_Witness ==
    /\ StreamsDone /\ req.idKind = "string"
    /\ req.animeId = <<"a">> /\ req.sep = <<":", ":">> /\ req.ep = "1"
    /\ Len(calls) >= 2
    /\ calls[1].id = <<"a", "?", "e", "p", "=", "1">>

-----------------------------------------------------------------------------
(***************************************************************************)
(* Claims about the multi-server operations (under SpecMulti).             *)
(***************************************************************************)
MultiDone == op = "multi" /\ pc = "done" /\ impl \in {"method", "route"}
CallsTo(n, cat) ==
    {i \in 1..Len(calls) : calls[i].server = n /\ calls[i].category = cat}
LastOf(S) == CHOOSE i \in S : \A j \in S : j <= i

\* C8: the servers list returned has exactly 3 entries with the ids hd-1,
\* hd-2, hd-3 in this order, whatever succeeded or failed; while the loop
\* runs the list is a prefix of that order.
C8_ThreeServersInOrder ==
    (op = "multi" /\ impl \in {"method", "route"})
    => /\ Len(servers) <= 3
       /\ \A k \in 1..Len(servers) : servers[k].id = <<"hd-1", "hd-2", "hd-3">>[k]
       /\ pc = "done" =>
            /\ Len(res.body.servers) = 3
            /\ res.body.servers[1].id = "hd-1"
            /\ res.body.servers[2].id = "hd-2"
            /\ res.body.servers[3].id = "hd-3"

\* C8 witness: a finished movie request in which hd-1 gave nothing, hd-2
\* gave a sub source and hd-3 gave only a dub source.
C8_Witness ==
    /\ MultiDone /\ req.kind = "movie"
    /\ res.body.servers[1].sources.sub.link = Null
    /\ res.body.servers[1].sources.dub.link = Null
    /\ res.body.servers[2].sources.sub.link = "u2"
    /\ res.body.servers[3].sources.sub.link = Null
    /\ res.body.servers[3].sources.dub.link = "u2"

\* C9: in a finished multi-server operation every (server, category) was
\* fetched at least once, the answer is success = true with status 200, and
\* the link of each entry is decided by the last answer to its own fetch
\* alone: the first source url if that answer carried one, null otherwise
\* (in particular when every attempt of that fetch failed).
C9_FailureIsolation ==
    MultiDone
    => /\ res.status = 200
       /\ res.body.success = TRUE
       /\ \A k \in 1..3 : \A cat \in {"sub", "dub"} :
            LET n == <<"hd-1", "hd-2", "hd-3">>[k]
                last == outcomes[LastOf(CallsTo(n, cat))]
            IN /\ CallsTo(n, cat) # {}
               /\ res.body.servers[k].sources[cat].link =
                    (IF YieldsSource(last)
                     THEN last.value.sources.list[1].url ELSE Null)

\* C9 witness: both attempts of (hd-1, sub) failed; its link alone is null
\* while hd-1 dub and every later entry carry a source.
C9_Witness ==
    /\ MultiDone /\ req.kind = "episode"
    /\ outcomes[1].kind = "rejected" /\ outcomes[2].kind = "rejected"
    /\ res.body.servers[1].sources.sub.link = Null
    /\ res.body.servers[1].sources.dub.link = "u2"
    /\ \A k \in 2..3 : \A cat \in {"sub", "dub"} :
            res.body.servers[k].sources[cat].link = "u2"

(***************************************************************************)
(* Claims about the captions map (under SpecCaptions).                     *)
(***************************************************************************)
CaptionsDone == op = "captions" /\ pc = "done"
FilledEntry == serverObj.sources[req.category]
AnswerTracks ==
    IF req.answer.tracks.present THEN req.answer.tracks.list ELSE <<>>
TracksOf(l) == {l[i] : i \in 1..Len(l)}
GivesLink == FilledEntry.link # Null

\* C10 (as claimed): for a fetch that yields a source and tracks that all
\* carry a label, the keys of the captions map are exactly the labels of
\* the tracks whose label is not "thumbnails", each mapped to the url of
\* such a track.
C10_ExactlyNonThumbnails ==
    (CaptionsDone /\ GivesLink
        /\ \A t \in TracksOf(AnswerTracks) : t.lang # Undefined)
    => LET kept == {t \in TracksOf(AnswerTracks) : t.lang # "thumbnails"}
       IN /\ DOMAIN FilledEntry.captions = {t.lang : t \in kept}
          /\ \A l \in DOMAIN FilledEntry.captions :
                \E t \in kept : t.lang = l /\ t.url = FilledEntry.captions[l]

\* C10 (amended): for a fetch that yields a source, the keys of the captions
\* map are exactly the labels of the tracks that have a label, whose label
\* is not "thumbnails", and that have a non-empty url; each key is mapped to
\* the url of such a track. A fetch that yields no source leaves the map
\* empty.
C10_CaptionsMap ==
    CaptionsDone
    => LET kept == {t \in TracksOf(AnswerTracks) :
                        /\ t.lang \notin {Undefined, "", "thumbnails"}
                        /\ t.url \notin {Undefined, ""}}
       IN IF GivesLink
          THEN /\ DOMAIN FilledEntry.captions = {t.lang : t \in kept}
               /\ \A l \in DOMAIN FilledEntry.captions :
                    \E t \in kept : t.lang = l /\ t.url = FilledEntry.captions[l]
          ELSE DOMAIN FilledEntry.captions = {}

\* C10 witness: tracks [English -> c1, thumbnails -> c2] gave {English: c1}.
C10_Witness ==
    /\ CaptionsDone /\ GivesLink
    /\ AnswerTracks = << [lang |-> "English", url |-> "c1", default |-> Undefined],
                         [lang |-> "thumbnails", url |-> "c2", default |-> Undefined] >>
    /\ DOMAIN FilledEntry.captions = {"English"}
    /\ FilledEntry.captions["English"] = "c1"

(***************************************************************************)
(* Claims about rewriteM3u8 (under SpecRewrite).                           *)
(***************************************************************************)
RewriteDone == op = "rewrite" /\ pc = "done"
InLine(i) == LineText(req.lines[i])
OutLines == Split(res.value)
IsProxiedLine(l) == StartsWith(l, ProxyPrefix)
EndsInWhiteSpace(l) == l # <<>> /\ l[Len(l)] \in WhiteSpace

\* C11 (as claimed): every input line that begins with "/proxy?url=" is, at
\* the same position of the output, exactly the input line, trailing
\* whitespace and carriage return included.
C11_ProxiedLinesExact ==
    RewriteDone
    => /\ Len(OutLines) = Len(req.lines)
       /\ \A i \in 1..Len(req.lines) :
            IsProxiedLine(InLine(i)) => OutLines[i] = InLine(i)

\* C11 (amended): every input line that begins with "/proxy?url=" and holds
\* no CODECS= text is, at the same position of the output, the input line
\* without its trailing whitespace: the output line is a prefix of the input
\* line, does not end in whitespace, and what it leaves out is whitespace
\* only. It is the input line exactly when that has no trailing whitespace.
C11_ProxiedLinesTrimmed ==
    RewriteDone
    => /\ Len(OutLines) = Len(req.lines)
       /\ \A i \in 1..Len(req.lines) :
            (IsProxiedLine(InLine(i)) /\ ~ Includes(InLine(i), <<"CODECS=">>))
            => /\ StartsWith(InLine(i), OutLines[i])
               /\ IsProxiedLine(OutLines[i])
               /\ ~ EndsInWhiteSpace(OutLines[i])
               /\ \A k \in (Len(OutLines[i]) + 1)..Len(InLine(i)) :
                    InLine(i)[k] \in WhiteSpace
               /\ (~ EndsInWhiteSpace(InLine(i)) => OutLines[i] = InLine(i))

\* C11 witness: a two-line playlist whose first line is a proxied reference
\* and whose second is the same reference followed by a carriage return;
\* both come out as the bare reference.
C11_Witness ==
    /\ RewriteDone
    /\ Len(req.lines) = 2
    /\ InLine(1) = ProxiedUri
    /\ InLine(2) = ProxiedUri \o <<"\r">>
    /\ OutLines = <<ProxiedUri, ProxiedUri>>

(***************************************************************************)
(* Claims about the playlist path of GET /proxy (under SpecProxy).         *)
(***************************************************************************)
ProxyDone == op = "proxy" /\ pc = "done"
\* The request was answered with a rewritten playlist.
ServedPlaylist ==
    /\ ProxyDone /\ res.status = 200
    /\ res.contentType = Header(MpegUrlType)
UpLines == UpstreamOf(outcomes).lines
SentLines == Split(res.body)
IsAttrLine(d) == d.head \in {StreamInfTag, MediaTag}
HasMarkerLine == \E i \in 1..Len(UpLines) : UpLines[i].head = StreamInfTag
IsCodecs(a) == a = CodecsAttr
IsOther(a) == a # CodecsAttr
\* The line with its CODECS attributes left out of its attribute list.
WithoutCodecs(d) ==
    d.lead \o d.head \o JoinAttrs(SelectSeq(d.attrs, IsOther)) \o d.trail

TruncatedAfterLastSlash(t) ==
    LET k == CHOOSE n \in 0..Len(t) :
                /\ n > 0 => t[n] = "/"
                /\ \A j \in (n + 1)..Len(t) : t[j] # "/"
    IN SubSeq(t, 1, k)
\* The absolute URL of a child reference.
AbsoluteUrl(l, base) ==
    IF StartsWith(l, <<"http:", "/", "/">>) \/ StartsWith(l, <<"https:", "/", "/">>)
    THEN l ELSE base \o l
IsReference(l) ==
    l # <<>> /\ ~ StartsWith(l, <<"#">>) /\ ~ StartsWith(l, ProxyPrefix)

\* C13 (as claimed): every input line that is non-empty, does not start
\* with '#' and does not start with "/proxy?url=" is replaced by
\* "/proxy?url=" followed by the percent-encoding of its absolute URL: the
\* line itself if it starts with http:// or https://, else the target URL
\* truncated after its last '/' followed by the line.
C13_ChildReferences ==
    ServedPlaylist
    => \A i \in 1..Len(UpLines) :
         IsReference(LineText(UpLines[i]))
         => SentLines[i] =
              ProxyPrefix \o EncodeURIComponent(
                  AbsoluteUrl(LineText(UpLines[i]),
                              TruncatedAfterLastSlash(req.url.str)))

\* C13 (amended): the same with the line taken without its leading and
\* trailing whitespace, for lines holding no CODECS= text: a line that,
\* trimmed, is non-empty, does not start with '#' and does not start with
\* "/proxy?url=" is replaced by "/proxy?url=" followed by the
\* percent-encoding of the absolute URL of the trimmed line.
C13_TrimmedChildReferences ==
    ServedPlaylist
    => \A i \in 1..Len(UpLines) :
         (/\ IsReference(Trim(LineText(UpLines[i])))
          /\ ~ Includes(LineText(UpLines[i]), <<"CODECS=">>))
         => SentLines[i] =
              ProxyPrefix \o EncodeURIComponent(
                  AbsoluteUrl(Trim(LineText(UpLines[i])),
                              TruncatedAfterLastSlash(req.url.str)))

\* C13 witness: target http://host/path/master.m3u8 with the lines
\* 200p/index.m3u8 and seg.ts followed by a carriage return.
C13_Witness ==
    /\ ServedPlaylist
    /\ req.url.str = MasterUrl
    /\ Len(UpLines) = 2
    /\ LineText(UpLines[1]) = NestedUri
    /\ LineText(UpLines[2]) = <<"seg.ts", "\r">>
    /\ SentLines =
         << <<"/", "proxy?url=", "http%3A", "%2F", "%2F", "host", "%2F", "path",
              "%2F", "200p", "%2F", "index", ".m3u8">>,
            <<"/", "proxy?url=", "http%3A", "%2F", "%2F", "host", "%2F", "path",
              "%2F", "seg.ts">> >>

(***************************************************************************)
(* Claims about GET /proxy as a whole (under SpecProxy, SpecProxyLive).    *)
(***************************************************************************)
PiecesOf(q) == {q[i] : i \in 1..Len(q)}
\* The fetch resolved and the body was read.
FetchedAndRead ==
    /\ ProxyDone /\ req.url.kind = "string"
    /\ Len(outcomes) = 2
    /\ outcomes[1].kind = "resolved" /\ outcomes[2].kind = "resolved"
\* The target ends in .m3u8 or the upstream content type holds mpegurl or m3u8.
ClaimedPlaylist ==
    \/ req.url.str[Len(req.url.str)] = ".m3u8"
    \/ /\ UpstreamOf(outcomes).contentType.present
       /\ PiecesOf(UpstreamOf(outcomes).contentType.value) \cap {"mpegurl", "m3u8"} # {}

C15_AlwaysCrossOrigin ==
    (op = "proxy" /\ res.kind = "response") => res.acao

\* C16: the handler never issues a second upstream fetch for a request, and
\* when the fetch or the body read fails it answers 500 having issued
\* exactly one fetch.
C16_FailureNotRetried ==
    op = "proxy"
    => /\ Len(calls) <= 1
       /\ (ProxyDone /\ \E i \in 1..Len(outcomes) : outcomes[i].kind = "rejected")
          => (res.kind = "response" /\ res.status = 500 /\ Len(calls) = 1)

\* C16 witness: the fetch of .../seg.ts was rejected and 500 was answered
\* after one fetch.
C16_Witness ==
    /\ ProxyDone
    /\ req.url.str = SegmentUrl
    /\ outcomes = <<Rejected("FetchError")>>
    /\ calls = <<[url |-> SegmentUrl]>>
    /\ res.status = 500

MissingId == op = "streams" /\ impl = "route" /\ req.idKind \in {"empty", "absent"}

\* C18: a /proxy request with a missing or empty url, and an /api/stream
\* request with a missing or empty id, makes no upstream fetch and no
\* provider call, and is answered with status 400.
C18_ClientErrors ==
    /\ (op = "proxy" /\ MissingUrl(req.url))
       => (calls = <<>> /\ (pc = "done" => res.status = 400))
    /\ MissingId
       => (calls = <<>> /\ (pc = "done" => res.status = 400))

(***************************************************************************)
(* Claims about the tracks of getEpisodeStreams (under SpecStreams).       *)
(***************************************************************************)
\* The tracks of the result, sub and dub.
ResultTracks ==
    LET data == res.body.data
        sub == {data.sub.tracks[i] : i \in 1..Len(data.sub.tracks)}
        dub == IF "tracks" \in DOMAIN data.dub
               THEN {data.dub.tracks[i] : i \in 1..Len(data.dub.tracks)}
               ELSE {}
    IN sub \cup dub

\* C19: each track of the result has kind 'captions' unless its label is
\* that of a thumbnails track, in which case its kind is 'thumbnails'.
C19_TrackKind ==
    (StreamsDone /\ res.status = 200)
    => \A t \in ResultTracks :
         t.kind = (IF t.label = "thumbnails" THEN "thumbnails" ELSE "captions")

\* C20: a track of the result has default = true only when its label is
\* English; a track with any other label has default = false.
C20_DefaultOnlyEnglish ==
    (StreamsDone /\ res.status = 200)
    => \A t \in ResultTracks : t.default => t.label = "English"

(***************************************************************************)
(* Further claims about getEpisodeStreams / GET /api/stream (under         *)
(* SpecStreams).                                                           *)
(***************************************************************************)
\* The request has a string id that is present and a server that is a
\* string or absent, and it has been answered.
TypedDone ==
    /\ StreamsDone /\ req.idKind = "string" /\ req.server.kind # "array"
\* A fetch of the category resolved (at most one does: it ends the retries).
Fetched(cat) == ResolvedAt(cat) # {}
WindowOf(w) == [start |-> w.start, end |-> w.end]

\* C21: when the provider's answer to the sub (dub) fetch carries a source
\* and intro or outro offsets, the intro and outro of the sub (dub) result
\* are the provider's values.
C21_IntroOutroPassThrough ==
    TypedDone
    => /\ (Fetched("sub") /\ YieldsSource(Resolved(AnswerOf("sub"))))
          => /\ AnswerOf("sub").intro.present
                => res.body.data.sub.intro = WindowOf(AnswerOf("sub").intro)
             /\ AnswerOf("sub").outro.present
                => res.body.data.sub.outro = WindowOf(AnswerOf("sub").outro)
       /\ (Fetched("dub") /\ YieldsSource(Resolved(AnswerOf("dub"))))
          => /\ AnswerOf("dub").intro.present
                => res.body.data.dub.intro = WindowOf(AnswerOf("dub").intro)
             /\ AnswerOf("dub").outro.present
                => res.body.data.dub.outro = WindowOf(AnswerOf("dub").outro)

\* The server name in lower case, and the name the claim expects to be used.
LowerName(n) == IF n \in {"hd-1", "HD-1"} THEN "hd-1" ELSE n
ClaimedServer ==
    IF req.server.kind = "absent" \/ req.server.name = ""
    THEN "hd-2" ELSE LowerName(req.server.name)

\* C22: every provider call of a request carries the lower-cased server
\* name, which is also the server label of the result (so that names that
\* differ in case only give the same calls and label); with the server
\* absent or empty the calls go to hd-2 and the label is hd-2.
C22_ServerNames ==
    (op = "streams" /\ req.idKind = "string" /\ req.server.kind # "array")
    => /\ \A i \in 1..Len(calls) : calls[i].server = ClaimedServer
       /\ pc = "done"
          => /\ res.body.data.sub.server = ClaimedServer
             /\ "server" \in DOMAIN res.body.data.dub
                => res.body.data.dub.server = ClaimedServer

\* C23: when the sub fetch resolved with a non-empty source list,
\* sub.link.file is the url of the first source and sub.tracks holds one
\* entry per provider subtitle, in the provider's order; when it resolved
\* with an empty or absent list, or never resolved, sub.link.file is null.
C23_FirstSourceWins ==
    TypedDone
    => LET a == AnswerOf("sub")
           subs == IF a.subtitles.present THEN a.subtitles.list ELSE <<>>
           sub == res.body.data.sub
       IN IF Fetched("sub") /\ YieldsSource(Resolved(a))
          THEN /\ sub.link.file = a.sources.list[1].url
               /\ Len(sub.tracks) = Len(subs)
               /\ \A i \in 1..Len(subs) :
                    /\ sub.tracks[i].file = subs[i].url
                    /\ sub.tracks[i].label = subs[i].lang
          ELSE sub.link.file = Null /\ sub.tracks = <<>>

\* C23 witness: the provider answered the sub fetch with the sources u2, u1
\* and two subtitles; the result has the file u2 and the two tracks in order.
C23_Witness ==
    /\ TypedDone /\ Fetched("sub")
    /\ AnswerOf("sub").sources.list = <<[url |-> "u2"], [url |-> "u1"]>>
    /\ res.body.data.sub.link.file = "u2"
    /\ Len(res.body.data.sub.tracks) = 2
    /\ res.body.data.sub.tracks[1].label = "English"
    /\ res.body.data.sub.tracks[2].label = "thumbnails"

\* The other implementation of the operation, and the server name it uses.
OtherImpl == IF impl = "method" THEN "route" ELSE "method"
OtherServer == ServerParamOf(OtherImpl, req.server)
ResponseWith(server) ==
    IF ResolvedAt("sub") = {}
    THEN Response(InitialData(server))
    ELSE Response(ApplyDub(ApplySub(InitialData(server), AnswerOf("sub")),
                           AnswerOf("dub"), server))

\* C26: for every present id and every server value (absent and empty
\* included) and every behaviour of the provider, the route GET /api/stream
\* and the method getEpisodeStreams make the same provider calls and give
\* the same body: the calls and the body of either one are those the other
\* one gives for the same request and the same provider answers.
C26_RouteEqualsMethod ==
    (op = "streams" /\ req.idKind = "string" /\ req.server.kind # "array")
    => /\ \A i \in 1..Len(calls) :
            calls[i].server = OtherServer
       /\ pc = "done" => res = ResponseWith(OtherServer)

\* The calls made so far for a category, and the rejections among them.
CallsOf(cat) == {i \in 1..Len(calls) : calls[i].category = cat}
RejectedOf(cat) == {i \in SettledCalls(cat) : outcomes[i].kind = "rejected"}
Min(a, b) == IF a < b THEN a ELSE b

\* C27: a request makes at most 3 sub calls and at most 2 dub calls, all
\* with the same id and server, every sub call before every dub call; the
\* waits are 1000 then 2000 between sub calls and 500 between dub calls, one
\* wait before each call after the first of its category; and the request
\* is never stuck before its answer.
C27_CallBudget ==
    (op = "streams" /\ req.idKind = "string" /\ req.server.kind # "array")
    => /\ Cardinality(CallsOf("sub")) <= 3
       /\ Cardinality(CallsOf("dub")) <= 2
       /\ \A i \in CallsOf("dub"), j \in CallsOf("sub") : j < i
       /\ \A i \in 1..Len(calls) :
            /\ calls[i].id = calls[1].id
            /\ calls[i].server = calls[1].server
       /\ delays = SubSeq(<<1000, 2000>>, 1,
                          Min(Cardinality(RejectedOf("sub")), 2))
                   \o SubSeq(<<500>>, 1,
                             Min(Cardinality(RejectedOf("dub")), 1))
       /\ Cardinality(CallsOf("sub")) <= 1 + Cardinality(RejectedOf("sub"))
       /\ Cardinality(CallsOf("dub")) <= 1 + Cardinality(RejectedOf("dub"))
       /\ pc # "done" => ENABLED NextStreams

\* C27 witness: three sub calls and two dub calls, with the waits 1000, 2000
\* and 500, and the answer sent.
C27_Witness ==
    /\ TypedDone
    /\ Cardinality(CallsOf("sub")) = 3 /\ Cardinality(CallsOf("dub")) = 2
    /\ delays = <<1000, 2000, 500>>

\* The fetch of the category resolved with an answer holding no source.
ResolvedEmpty(cat) == Fetched(cat) /\ ~ YieldsSource(Resolved(AnswerOf(cat)))

\* C29: a provider answer that resolves with empty or absent sources is a
\* success of its fetch: no call of that category follows it (a category
\* whose first call resolved so has exactly one call), the category's URL
\* stays unset, and for the sub category the note is "Stream not available -
\* try another server".
C29_EmptyAnswerNotRetried ==
    (op = "streams" /\ req.idKind = "string" /\ req.server.kind # "array")
    => \A cat \in {"sub", "dub"} :
         ResolvedEmpty(cat)
         => /\ \A i \in ResolvedAt(cat), j \in CallsOf(cat) : j <= i
            /\ RejectedOf(cat) = {} => Cardinality(CallsOf(cat)) = 1
            /\ pc = "done"
               => IF cat = "sub"
                  THEN /\ res.body.data.sub.link.file = Null
                       /\ res.body.note = NoteNotAvailable
                  ELSE res.body.data.dub = EmptyObject

\* C29 witness: the first sub call resolved with an empty source list and
\* the first dub call with none; the request made two calls and answered
\* with the note.
C29_Witness ==
    /\ TypedDone
    /\ ResolvedEmpty("sub") /\ ResolvedEmpty("dub")
    /\ ~ AnswerOf("sub").nul /\ AnswerOf("sub").sources.present
    /\ Len(calls) = 2
    /\ res.body.data.sub.link.file = Null
    /\ res.body.note = NoteNotAvailable

(***************************************************************************)
(* Further claims about the captions map (under SpecCaptions).             *)
(***************************************************************************)
\* The positions of the tracks labelled l, and the labels that several
\* tracks carry (thumbnails and missing labels aside).
TracksLabelled(l) == {i \in 1..Len(AnswerTracks) : AnswerTracks[i].lang = l}
RepeatedLabels ==
    {l \in {AnswerTracks[i].lang : i \in 1..Len(AnswerTracks)} :
        /\ l \notin {Undefined, "", "thumbnails"}
        /\ Cardinality(TracksLabelled(l)) >= 2}

\* C24 (as claimed): for a fetch that yields a source, a label that several
\* non-thumbnails tracks carry has one entry in the captions map, and its
\* url is the url of the last such track in the provider's order.
C24_LastTrackWins ==
    (CaptionsDone /\ GivesLink)
    => \A l \in RepeatedLabels :
          /\ l \in DOMAIN FilledEntry.captions
          /\ FilledEntry.captions[l] = AnswerTracks[LastOf(TracksLabelled(l))].url

\* C24 (amended): for a fetch that yields a source, a label that several
\* non-thumbnails tracks carry has an entry in the captions map exactly
\* when one of these tracks has a non-empty url, and the entry's url is the
\* url of the last such track that has a non-empty url.
C24_LastTrackWithUrlWins ==
    (CaptionsDone /\ GivesLink)
    => \A l \in RepeatedLabels :
          LET withUrl == {i \in TracksLabelled(l) :
                            AnswerTracks[i].url \notin {Undefined, ""}}
          IN IF withUrl = {}
             THEN l \notin DOMAIN FilledEntry.captions
             ELSE /\ l \in DOMAIN FilledEntry.captions
                  /\ FilledEntry.captions[l] = AnswerTracks[LastOf(withUrl)].url

\* C24 witness: tracks [English -> c1, English -> c2] gave {English: c2}.
C24_Witness ==
    /\ CaptionsDone /\ GivesLink
    /\ Len(AnswerTracks) = 2
    /\ AnswerTracks[1].lang = "English" /\ AnswerTracks[1].url = "c1"
    /\ AnswerTracks[2].lang = "English" /\ AnswerTracks[2].url = "c2"
    /\ DOMAIN FilledEntry.captions = {"English"}
    /\ FilledEntry.captions["English"] = "c2"

(***************************************************************************)
(* Further claims about the multi-server operations (under SpecMulti).     *)
(***************************************************************************)
ServerIds == <<"hd-1", "hd-2", "hd-3">>
\* What the fetch of (n, cat) handed to the loop body: the value its last
\* call resolved with, null when that call was rejected or none was made.
FinalAnswer(n, cat) ==
    IF CallsTo(n, cat) = {} THEN ScraperNull
    ELSE LET o == outcomes[LastOf(CallsTo(n, cat))]
         IN IF o.kind = "resolved" THEN o.value ELSE ScraperNull
\* The servers list getEpisodeMultiServer builds from these answers.
ServersFromAnswers ==
    [k \in 1..3 |->
        FillEntry(FillEntry(NewServerObj(ServerIds[k]), "sub",
                            FinalAnswer(ServerIds[k], "sub")),
                  "dub", FinalAnswer(ServerIds[k], "dub"))]

\* C25: the servers list that the route GET /api/stream/:type/:tvId/ep/:epid
\* of src/index.ts returns is the list getEpisodeMultiServer returns for the
\* same provider behaviour: three entries with the ids hd-1, hd-2, hd-3,
\* each link and captions map taken from the provider's answer to the fetch
\* of that server and category.
C25_RouteUsesMultiServer ==
    (op = "multi" /\ impl \in {"method", "static"} /\ req.kind = "episode"
        /\ pc = "done")
    => /\ Len(res.body.servers) = 3
       /\ \A k \in 1..3 : res.body.servers[k].id = ServerIds[k]
       /\ res.body.servers = ServersFromAnswers

\* The place of a call in the order hd-1 sub, hd-1 dub, hd-2 sub, ...
Rank(c) ==
    2 * (CHOOSE k \in 1..3 : ServerIds[k] = c.server)
    + (IF c.category = "dub" THEN 1 ELSE 0)
\* The calls that repeat the call before them.
Repeats == {i \in 2..Len(calls) : Rank(calls[i]) = Rank(calls[i - 1])}
\* The fetch of (n, cat) has completed: its last call resolved, or its
\* second call was rejected.
Completed(n, cat) ==
    /\ CallsTo(n, cat) # {}
    /\ LastOf(CallsTo(n, cat)) <= Len(outcomes)
    /\ \/ outcomes[LastOf(CallsTo(n, cat))].kind = "resolved"
       \/ Cardinality(CallsTo(n, cat)) = 2

\* C28: getEpisodeMultiServer calls the provider in the order hd-1 sub,
\* hd-1 dub, hd-2 sub, hd-2 dub, hd-3 sub, hd-3 dub, always with the id
\* tvId?ep=epid; each (server, category) gets one call, or two when the
\* first was rejected and 500 ms have been waited; and the entry of a
\* server is in the list exactly when its sub and its dub fetch completed.
C28_MultiSequencing ==
    (op = "multi" /\ impl \in {"method", "route"} /\ req.kind = "episode")
    => /\ \A i \in 1..Len(calls) :
            /\ calls[i].id = req.tvId \o <<"?", "e", "p", "=", req.epid>>
            /\ calls[i].server \in {ServerIds[k] : k \in 1..3}
       /\ \A i, j \in 1..Len(calls) :
            i < j => Rank(calls[i]) <= Rank(calls[j])
       /\ \A k \in 1..3 : \A cat \in {"sub", "dub"} :
            /\ Cardinality(CallsTo(ServerIds[k], cat)) <= 2
            /\ pc = "done" => Cardinality(CallsTo(ServerIds[k], cat)) >= 1
       /\ \A i \in Repeats : outcomes[i - 1].kind = "rejected"
       /\ \A i \in 1..Len(delays) : delays[i] = 500
       /\ Len(delays) = Cardinality(Repeats) + (IF pc = "sleep" THEN 1 ELSE 0)
       /\ Len(servers) = Cardinality({k \in 1..3 : Completed(ServerIds[k], "dub")})
       /\ \A k \in 1..Len(servers) :
            /\ servers[k].id = ServerIds[k]
            /\ Completed(ServerIds[k], "sub")
            /\ Completed(ServerIds[k], "dub")

\* C28 witness: a finished episode request in which the sub fetch of hd-1
\* took two calls and the dub fetch of hd-2 one; the third call went to
\* (hd-1, dub) and the list has three entries.
C28_Witness ==
    /\ MultiDone /\ req.kind = "episode" /\ req.epid = "1"
    /\ Cardinality(CallsTo("hd-1", "sub")) = 2
    /\ Cardinality(CallsTo("hd-2", "dub")) = 1
    /\ calls[3] = ScraperCall(<<"a", "?", "e", "p", "=", "1">>, "hd-1", "dub")
    /\ delays[1] = 500
    /\ Len(res.body.servers) = 3

-----------------------------------------------------------------------------
(***************************************************************************)
(* Two requests of getEpisodeStreams / GET /api/stream in flight at once.  *)
(* Node runs one handler at a time and switches at an await, so a step is  *)
(* one request running from one suspension point to the next. Every local  *)
(* of the handler is a pair here, indexed by the request; the provider     *)
(* object (this.scraper, const scraper) is the only thing both requests    *)
(* touch, and its answers are arbitrary.                                   *)
(***************************************************************************)
Requests == 1..2

\* const transformedData = {...} is declared inside the handler: the object
\* a request works on is the one its own invocation created.
DataScope_Module(r) == 1
DataScope(r) == r

ConcRequests ==
    { << [impl |-> i, animeId |-> <<"a">>, sep |-> <<":", ":">>, ep |-> "1",
          idKind |-> "string", server |-> StringName("HD-1")],
         [impl |-> j, animeId |-> <<"a">>, sep |-> <<"?">>, ep |-> "2",
          idKind |-> "string", server |-> AbsentName] >> :
        i \in {"method", "route"}, j \in {"method", "route"} }

ConcResults ==
    { ScraperNull,
      ScraperData(Present(<<[url |-> "u1"]>>), Absent, Absent, NoWindow, NoWindow),
      ScraperData(Present(<<[url |-> "u2"], [url |-> "u1"]>>),
                  Present(SampleTracks), Present(SampleTracks),
                  Window(10, 90), Window(1300, 1390)) }
ConcOutcomes ==
    {Resolved(v) : v \in ConcResults} \cup {Rejected(e) : e \in ScraperErrors}

InitConcurrent ==
    /\ op = "concurrent"
    /\ req \in ConcRequests
    /\ impl = <<req[1].impl, req[2].impl>>
    /\ pc = <<"start", "start">>
    /\ maxRetries = <<0, 0>> /\ baseDelay = <<0, 0>> /\ attempt = <<0, 0>>
    /\ lastError = <<Undefined, Undefined>> /\ delay = <<0, 0>>
    /\ category = <<"none", "none">> /\ serverIdx = 0
    /\ normalizedId = << <<>>, <<>> >> /\ serverParam = <<Undefined, Undefined>>
    /\ transformedData = <<NoRes, NoRes>> /\ serverObj = NoRes /\ servers = <<>>
    /\ res = <<NoRes, NoRes>>
    /\ calls = << <<>>, <<>> >> /\ outcomes = << <<>>, <<>> >>
    /\ delays = << <<>>, <<>> >>

\* Request r enters retryWithBackoff(fn, m, b).
ConcEnterRetry(r, m, b) ==
    /\ maxRetries' = [maxRetries EXCEPT ![r] = m]
    /\ baseDelay' = [baseDelay EXCEPT ![r] = b]
    /\ attempt' = [attempt EXCEPT ![r] = 0]
    /\ lastError' = [lastError EXCEPT ![r] = Undefined]
    /\ delay' = [delay EXCEPT ![r] = 0]

\* The catch block of request r's retryWithBackoff.
ConcAfterReject(r, e) ==
    /\ lastError' = [lastError EXCEPT ![r] = e]
    /\ maxRetries' = maxRetries /\ baseDelay' = baseDelay
    /\ IF ShouldDelay(attempt[r], maxRetries[r])
       THEN /\ delay' = [delay EXCEPT ![r] = BackoffDelay(baseDelay[r], attempt[r])]
            /\ delays' = [delays EXCEPT
                            ![r] = Append(@, BackoffDelay(baseDelay[r], attempt[r]))]
            /\ attempt' = attempt
       ELSE /\ delay' = [delay EXCEPT ![r] = 0]
            /\ delays' = delays
            /\ attempt' = [attempt EXCEPT ![r] = @ + 1]

\* Request r runs up to its first await.
ConcStart(r) ==
    /\ op = "concurrent" /\ pc[r] = "start"
    /\ LET id == ReplaceFirst(IdOf(req[r]).str)
           server == ServerParamOf(impl[r], req[r].server)
       IN /\ normalizedId' = [normalizedId EXCEPT ![r] = id]
          /\ serverParam' = [serverParam EXCEPT ![r] = server]
          /\ transformedData' =
                [transformedData EXCEPT ![DataScope(r)] = InitialData(server)]
          /\ ConcEnterRetry(r, 3, 1000)
          /\ category' = [category EXCEPT ![r] = "sub"]
          /\ calls' = [calls EXCEPT ![r] = Append(@, ScraperCall(id, server, "sub"))]
          /\ pc' = [pc EXCEPT ![r] = "pending"]
    /\ UNCHANGED <<op, impl, req, serverIdx, serverObj, servers, res, outcomes,
                   delays>>

\* The sub call of request r settles.
ConcSubSettle(r) ==
    /\ op = "concurrent" /\ pc[r] = "pending" /\ category[r] = "sub"
    /\ \E o \in ConcOutcomes :
        /\ outcomes' = [outcomes EXCEPT ![r] = Append(@, o)]
        /\ IF o.kind = "resolved"
           THEN /\ transformedData' =
                     [transformedData EXCEPT
                        ![DataScope(r)] = ApplySub(transformedData[DataScope(r)],
                                                   o.value)]
                /\ ConcEnterRetry(r, 2, 500)
                /\ category' = [category EXCEPT ![r] = "dub"]
                /\ calls' = [calls EXCEPT
                               ![r] = Append(@, ScraperCall(normalizedId[r],
                                                            serverParam[r], "dub"))]
                /\ pc' = [pc EXCEPT ![r] = "pending"]
                /\ UNCHANGED <<res, delays>>
           ELSE /\ ConcAfterReject(r, o.error)
                /\ IF ShouldDelay(attempt[r], maxRetries[r])
                   THEN pc' = [pc EXCEPT ![r] = "sleep"] /\ res' = res
                   ELSE /\ pc' = [pc EXCEPT ![r] = "done"]
                        /\ res' = [res EXCEPT
                                     ![r] = Response(transformedData[DataScope(r)])]
                /\ UNCHANGED <<transformedData, category, calls>>
    /\ UNCHANGED <<op, impl, req, serverIdx, normalizedId, serverParam,
                   serverObj, servers>>

\* The dub call of request r settles.
ConcDubSettle(r) ==
    /\ op = "concurrent" /\ pc[r] = "pending" /\ category[r] = "dub"
    /\ \E o \in ConcOutcomes :
        /\ outcomes' = [outcomes EXCEPT ![r] = Append(@, o)]
        /\ IF o.kind = "resolved" \/ ~ ShouldDelay(attempt[r], maxRetries[r])
           THEN LET v == IF o.kind = "resolved" THEN o.value ELSE ScraperNull
                    data == ApplyDub(transformedData[DataScope(r)], v,
                                     serverParam[r])
                IN /\ transformedData' =
                        [transformedData EXCEPT ![DataScope(r)] = data]
                   /\ pc' = [pc EXCEPT ![r] = "done"]
                   /\ res' = [res EXCEPT ![r] = Response(data)]
                   /\ IF o.kind = "resolved"
                      THEN UNCHANGED <<retryVars, delays>>
                      ELSE ConcAfterReject(r, o.error)
           ELSE /\ ConcAfterReject(r, o.error)
                /\ pc' = [pc EXCEPT ![r] = "sleep"]
                /\ UNCHANGED <<res, transformedData>>
    /\ UNCHANGED <<op, impl, req, category, serverIdx, normalizedId, serverParam,
                   serverObj, servers, calls>>

\* The backoff timer of request r fires.
ConcTimer(r) ==
    /\ op = "concurrent" /\ pc[r] = "sleep"
    /\ attempt' = [attempt EXCEPT ![r] = @ + 1]
    /\ calls' = [calls EXCEPT
                   ![r] = Append(@, ScraperCall(normalizedId[r], serverParam[r],
                                                category[r]))]
    /\ pc' = [pc EXCEPT ![r] = "pending"]
    /\ UNCHANGED <<op, impl, req, maxRetries, baseDelay, lastError, delay,
                   aggVars, res, outcomes, delays>>

NextConcurrent ==
    \/ \E r \in Requests : ConcStart(r)
    \/ \E r \in Requests : ConcSubSettle(r)
    \/ \E r \in Requests : ConcDubSettle(r)
    \/ \E r \in Requests : ConcTimer(r)

SpecConcurrent == InitConcurrent /\ [][NextConcurrent]_vars

(***************************************************************************)
(* Claims about concurrent requests (under SpecConcurrent).                *)
(***************************************************************************)
\* The server name of request r, and the answers to its own calls.
OwnServer(r) == ServerParamOf(req[r].impl, req[r].server)
OwnResolved(r, cat) ==
    {i \in 1..Len(outcomes[r]) :
        calls[r][i].category = cat /\ outcomes[r][i].kind = "resolved"}
OwnAnswer(r, cat) ==
    IF OwnResolved(r, cat) = {} THEN ScraperNull
    ELSE outcomes[r][CHOOSE i \in OwnResolved(r, cat) : TRUE].value
\* The aggregation state request r builds alone from these answers.
AloneData(r) ==
    IF OwnResolved(r, "sub") = {} THEN InitialData(OwnServer(r))
    ELSE ApplyDub(ApplySub(InitialData(OwnServer(r)), OwnAnswer(r, "sub")),
                  OwnAnswer(r, "dub"), OwnServer(r))

\* C30: with two requests interleaved at their suspension points in any
\* order, the calls of each request carry its own id and server, its
\* aggregation state is at every moment the one it builds alone from the
\* answers to its own calls, and its response is the response it gives
\* alone for these answers.
C30_RequestIsolation ==
    op = "concurrent"
    => \A r \in Requests :
         /\ \A i \in 1..Len(calls[r]) :
              /\ calls[r][i].id = ReplaceFirst(IdOf(req[r]).str)
              /\ calls[r][i].server = OwnServer(r)
         /\ pc[r] = "start" => transformedData[r] = NoRes /\ res[r] = NoRes
         /\ pc[r] # "start" => transformedData[r] = AloneData(r)
         /\ pc[r] = "done" => res[r] = Response(AloneData(r))
         /\ pc[r] # "done" => res[r] = NoRes

\* C30 witness: request 1 has answered with the source u1 while request 2,
\* which got the sources u2, u1 for its sub fetch, awaits its dub call.
C30_Witness ==
    /\ op = "concurrent"
    /\ pc[1] = "done" /\ res[1].body.data.sub.link.file = "u1"
    /\ res[1].body.data.sub.server = "hd-1"
    /\ pc[2] = "pending" /\ category[2] = "dub"
    /\ transformedData[2].sub.link.file = "u2"
    /\ transformedData[2].sub.server = "hd-2"

-----------------------------------------------------------------------------
(***************************************************************************)
(* The shape of the dub result (under SpecStreams).                        *)
(***************************************************************************)
\* The finished request answered with a body that carries data.
AnsweredWithData == StreamsDone /\ "data" \in DOMAIN res.body
NoDubSource == \A i \in SettledCalls("dub") : ~ YieldsSource(outcomes[i])

\* C31: in every response of getEpisodeStreams that carries data, dub is
\* either the empty object or a full result of type dub whose link.file is
\* not null and whose server is sub.server; and dub is the empty object
\* whenever no dub call yielded a source (all failed, returned no source,
\* or none was made).
C31_DubShape ==
    AnsweredWithData
    => LET sub == res.body.data.sub
           dub == res.body.data.dub
       IN /\ \/ dub = EmptyObject
             \/ /\ DOMAIN dub = {"type", "link", "tracks", "intro", "outro", "server"}
                /\ dub.type = "dub"
                /\ dub.link.file \notin {Null, Undefined}
                /\ dub.server = sub.server
          /\ NoDubSource => dub = EmptyObject

\* C31 witness: a response whose dub result is full, with the file u1 and
\* the server hd-1 of its sub result, next to a sub result without a file.
C31_Witness ==
    /\ AnsweredWithData /\ req.idKind = "string"
    /\ res.body.data.dub # EmptyObject
    /\ res.body.data.dub.link.file = "u1"
    /\ res.body.data.dub.server = "hd-1"
    /\ res.body.data.sub.server = "hd-1"
    /\ res.body.data.sub.link.file = Null

(***************************************************************************)
(* The shape of the rewriter's output (under SpecRewrite).                 *)
(***************************************************************************)
IsBlankLine(l) == Trim(l) = <<>>
IsCommentLine(l) == StartsWith(Trim(l), <<"#">>)

\* C32: for every content, baseUrl and isMaster the output of rewriteM3u8
\* has as many lines as the input, in the same order (a blank line stays
\* blank, a line starting with '#' stays one, every other line becomes a
\* proxied reference), and every output line is blank after trimming,
\* starts with '#' after trimming, or starts with "/proxy?url=".
C32_OutputShape ==
    RewriteDone
    => /\ Len(OutLines) = Len(req.lines)
       /\ \A i \in 1..Len(OutLines) :
            /\ \/ IsBlankLine(OutLines[i])
               \/ IsCommentLine(OutLines[i])
               \/ IsProxiedLine(OutLines[i])
            /\ IsBlankLine(InLine(i)) => IsBlankLine(OutLines[i])
            /\ IsCommentLine(InLine(i)) => IsCommentLine(OutLines[i])
            /\ (~ IsBlankLine(InLine(i)) /\ ~ IsCommentLine(InLine(i)))
               => IsProxiedLine(OutLines[i])

\* C32 witness: a playlist of a tag line followed by an absolute http URL;
\* the tag line is still first and the URL came out as a proxied reference.
C32_Witness ==
    /\ RewriteDone /\ Len(req.lines) = 2
    /\ IsCommentLine(InLine(1)) /\ IsAbsolute(InLine(2))
    /\ Len(OutLines) = 2
    /\ IsCommentLine(OutLines[1])
    /\ IsProxiedLine(OutLines[2]) /\ OutLines[2] # InLine(2)

(***************************************************************************)
(* The upstream status and the proxy's answer (under SpecProxy).           *)
(***************************************************************************)
Raised == \E i \in 1..Len(outcomes) : outcomes[i].kind = "rejected"
\* The upstream body as it is, and as the rewriter gives it back.
RawBody == Content(UpLines)
RewrittenBody ==
    rewriteM3u8(RawBody, BaseUrlOf(req.url.str), IsMaster(RawBody))

\* C33: whenever the upstream fetch completed, with whatever HTTP status,
\* and the body was read, the proxy answers with status 200 and the
\* rewritten or raw upstream body; the proxy answers 500 only when the
\* fetch or the body read raised.
C33_StatusNotPropagated ==
    (ProxyDone /\ outcomes # <<>>)
    => /\ ~ Raised => /\ res.status = 200
                      /\ res.body \in {RawBody, RewrittenBody}
       /\ res.status = 500 => Raised

====
